---- MODULE Spec2Model ----
(***************************************************************************)
(* Model of weedbox/privy: the hierarchical permission matcher             *)
(* (permission.go), the Manager (manager.go) and the GORM storage it       *)
(* drives (GormStorage).                                                   *)
(*                                                                         *)
(* A Go string is a sequence of one-character strings, so that             *)
(* strings.HasPrefix, strings.Split and concatenation are computed and     *)
(* not assumed.                                                            *)
(***************************************************************************)
EXTENDS Integers, Sequences, FiniteSets, TLC

VARIABLES
    required,          \* argument requiredPermission of the matcher call
    given,             \* argument givenPermission of CheckPermission
    givenPermissions,  \* argument givenPermissions of CheckPermissions
    storage,           \* Manager.storage: the tables behind GormStorage
    last,              \* the last call made and what it returned
    pending            \* per concurrent caller: the Manager call it is inside

vars == <<required, given, givenPermissions, storage, last, pending>>

----------------------------------------------------------------------------
(* Bounds *)

\* longest permission string handed to CheckPermission (besides the examples)
MaxLen == 3

\* longest permission string inside a list handed to CheckPermissions
ListLen == 2

\* longest list handed to CheckPermissions
MaxList == 2

\* last id the roles table hands out
MaxRoleID == 2

\* longest permission list handed to CreateRole, AssignPermissions and
\* RemovePermissions
MaxPerms == 2

\* longest list of role keys handed to CheckRolesPermission
MaxRoleKeys == 2

\* last id the resources table hands out
MaxResourceID == 3

\* last id the actions table hands out
MaxActionID == 1

\* longest resource path, in keys
MaxDepth == 2

----------------------------------------------------------------------------
(* Strings *)

Dot == <<".">>

Alphabet == {"a", "b", "."}

\* all sequences over S of length 0..n
RECURSIVE SeqsUpTo(_, _)
SeqsUpTo(S, n) ==
    IF n = 0 THEN {<<>>}
    ELSE LET shorter == SeqsUpTo(S, n - 1)
         IN shorter \cup {Append(s, c) : s \in {t \in shorter : Len(t) = n - 1}, c \in S}

\* the permission strings of the tests and of the doc comment of CheckPermission
sUser == <<"u","s","e","r">>
sUsername == <<"u","s","e","r","n","a","m","e">>
sUserCreate == <<"u","s","e","r",".","c","r","e","a","t","e">>
sUserDelete == <<"u","s","e","r",".","d","e","l","e","t","e">>
sUserUpdate == <<"u","s","e","r",".","u","p","d","a","t","e">>
sInfra == <<"i","n","f","r","a","s","t","r","u","c","t","u","r","e">>
sInfraVm == sInfra \o <<".","v","m">>
sInfraVmStart == sInfraVm \o <<".","s","t","a","r","t">>
sInfraVmStop == sInfraVm \o <<".","s","t","o","p">>
sInfraVmComputeStart == sInfraVm \o <<".","c","o","m","p","u","t","e",".","s","t","a","r","t">>
sArticle == <<"a","r","t","i","c","l","e">>
sArticleRead == sArticle \o <<".","r","e","a","d">>
sArticleDelete == sArticle \o <<".","d","e","l","e","t","e">>

Examples ==
    {sUser, sUsername, sUserCreate, sUserDelete, sUserUpdate, sInfra, sInfraVm,
     sInfraVmStart, sInfraVmStop, sInfraVmComputeStart}

PermStrings == SeqsUpTo(Alphabet, MaxLen) \cup Examples

ListStrings == SeqsUpTo(Alphabet, ListLen)

\* strings.HasPrefix(s, prefix)
HasPrefix(s, prefix) ==
    /\ Len(s) >= Len(prefix)
    /\ SubSeq(s, 1, Len(prefix)) = prefix

\* strings.Index(s, ".") counted from 1; 0 when s holds no dot
IndexDot(s) ==
    IF \E i \in 1..Len(s) : s[i] = "."
    THEN CHOOSE i \in 1..Len(s) : s[i] = "." /\ \A j \in 1..(i - 1) : s[j] # "."
    ELSE 0

\* strings.Split(s, "."): the empty string yields one empty segment
RECURSIVE Split(_)
Split(s) ==
    LET i == IndexDot(s)
    IN IF i = 0 THEN <<s>>
       ELSE <<SubSeq(s, 1, i - 1)>> \o Split(SubSeq(s, i + 1, Len(s)))

----------------------------------------------------------------------------
(* permission.go: the matcher *)

\* CheckPermission without the exact-match branch
CheckPermissionNoExact(requiredPermission, givenPermission) ==
    IF HasPrefix(requiredPermission, givenPermission \o Dot) THEN TRUE
    ELSE IF HasPrefix(givenPermission, requiredPermission \o Dot) THEN TRUE
    ELSE FALSE

\* CheckPermission testing a bare string prefix, without the separator
CheckPermissionBarePrefix(requiredPermission, givenPermission) ==
    IF requiredPermission = givenPermission THEN TRUE
    ELSE IF HasPrefix(requiredPermission, givenPermission) THEN TRUE
    ELSE IF HasPrefix(givenPermission, requiredPermission) THEN TRUE
    ELSE FALSE

\* CheckPermission without the branch for a given descendant of required
CheckPermissionOneWay(requiredPermission, givenPermission) ==
    IF requiredPermission = givenPermission THEN TRUE
    ELSE IF HasPrefix(requiredPermission, givenPermission \o Dot) THEN TRUE
    ELSE FALSE

\* CheckPermission accepting a given ancestor only
CheckPermissionAncestorOnly(requiredPermission, givenPermission) ==
    IF requiredPermission = givenPermission THEN TRUE
    ELSE IF HasPrefix(givenPermission, requiredPermission \o Dot) THEN FALSE
    ELSE HasPrefix(requiredPermission, givenPermission \o Dot)

CheckPermission(requiredPermission, givenPermission) ==
    IF requiredPermission = givenPermission THEN TRUE
    ELSE IF HasPrefix(requiredPermission, givenPermission \o Dot) THEN TRUE
    ELSE IF HasPrefix(givenPermission, requiredPermission \o Dot) THEN TRUE
    ELSE FALSE

\* the range loop returning the verdict on the first element it sees
CheckPermissionsFirstOnly(requiredPermission, perms, i) ==
    IF i > Len(perms) THEN FALSE
    ELSE CheckPermission(requiredPermission, perms[i])

\* the range loop of CheckPermissions, from index i on
RECURSIVE CheckPermissionsFrom(_, _, _)
CheckPermissionsFrom(requiredPermission, perms, i) ==
    IF i > Len(perms) THEN FALSE
    ELSE IF CheckPermission(requiredPermission, perms[i]) THEN TRUE
    ELSE CheckPermissionsFrom(requiredPermission, perms, i + 1)

CheckPermissions(requiredPermission, perms) ==
    CheckPermissionsFrom(requiredPermission, perms, 1)

----------------------------------------------------------------------------
(* Errors: manager.go:9-13, GormStorage's error variables, and the errors
   the database hands through GormStorage unchanged *)

NoErr == "nil"
ErrInvalidResourcePath == "invalid resource path"
ErrResourceExists == "resource already exists"
ErrRoleExists == "role already exists"
ErrResourceNotFound == "resource not found"
ErrRoleNotFound == "role not found"
\* the database's own errors, which GormStorage returns as they are
ErrUniqueConstraint == "UNIQUE constraint failed"
ErrForeignKeyConstraint == "FOREIGN KEY constraint failed"
ErrEmptySlice == "empty slice found"
ErrDB == "database failure"

\* a nil *Resource or *Role
Nil == [ID |-> 0]

\* fault f = 0: every storage call of the operation reaches the database;
\* fault f = n > 0: the n-th storage call of the operation fails with ErrDB
NoFault == 0

----------------------------------------------------------------------------
(* GormStorage: the tables and the statements run on them *)

\* the tables after Initialize (AutoMigrate of Resource, Action, Role); ids are
\* AUTOINCREMENT primary keys; foreignKeys tells whether the database
\* enforces the declared foreign keys (SQLite does only when the connection
\* turns them on)
EmptyStorage(fk) ==
    [resources |-> {}, actions |-> {}, roles |-> {},
     nextResourceID |-> 1, nextActionID |-> 1, nextRoleID |-> 1,
     foreignKeys |-> fk]

\* First(&row): ordered by primary key, limit 1
FirstByID(rows) == CHOOSE r \in rows : \A o \in rows : r.ID <= o.ID

Max(a, b) == IF a >= b THEN a ELSE b

StorageCreateRole(st, role, fail) ==
    IF fail THEN [err |-> ErrDB, val |-> Nil, st |-> st]
    ELSE IF \E r \in st.roles : r.Key = role.Key
    THEN [err |-> ErrUniqueConstraint, val |-> Nil, st |-> st]
    ELSE LET row == [role EXCEPT !.ID = st.nextRoleID]
         IN [err |-> NoErr, val |-> row,
             st |-> [st EXCEPT !.roles = @ \cup {row}, !.nextRoleID = @ + 1]]

StorageGetRole(st, key, fail) ==
    IF fail THEN [err |-> ErrDB, val |-> Nil]
    ELSE LET rows == {r \in st.roles : r.Key = key}
         IN IF rows = {} THEN [err |-> ErrRoleNotFound, val |-> Nil]
            ELSE [err |-> NoErr, val |-> FirstByID(rows)]

\* db.Save keeping the permissions the stored row holds and adding the new
\* ones to them
StorageUpdateRoleMerging(st, role, fail) ==
    IF fail THEN [err |-> ErrDB, st |-> st]
    ELSE IF \E r \in st.roles : r.ID # role.ID /\ r.Key = role.Key
    THEN [err |-> ErrUniqueConstraint, st |-> st]
    ELSE LET held == IF \E r \in st.roles : r.ID = role.ID
                     THEN (CHOOSE r \in st.roles : r.ID = role.ID).Permissions
                     ELSE <<>>
             merged == [role EXCEPT !.Permissions =
                           held \o SelectSeq(@, LAMBDA x :
                                       \A i \in 1..Len(held) : held[i] # x)]
         IN [err |-> NoErr,
             st |-> [st EXCEPT !.roles = {r \in @ : r.ID # role.ID} \cup {merged},
                               !.nextRoleID = Max(@, role.ID + 1)]]

\* db.Save: update the row with this primary key, insert it when there is none
StorageUpdateRole(st, role, fail) ==
    IF fail THEN [err |-> ErrDB, st |-> st]
    ELSE IF \E r \in st.roles : r.ID # role.ID /\ r.Key = role.Key
    THEN [err |-> ErrUniqueConstraint, st |-> st]
    ELSE [err |-> NoErr,
          st |-> [st EXCEPT !.roles = {r \in @ : r.ID # role.ID} \cup {role},
                            !.nextRoleID = Max(@, role.ID + 1)]]

\* Delete(&Role{}) with no condition on the id: every role row goes
StorageDeleteRoleAll(st, id, fail) ==
    IF fail THEN [err |-> ErrDB, st |-> st]
    ELSE [err |-> NoErr, st |-> [st EXCEPT !.roles = {}]]

StorageDeleteRole(st, id, fail) ==
    IF fail THEN [err |-> ErrDB, st |-> st]
    ELSE [err |-> NoErr, st |-> [st EXCEPT !.roles = {r \in @ : r.ID # id}]]

\* the row with its own actions and no children loaded
HydrateActionsOnly(st, row) ==
    [ID |-> row.ID, Key |-> row.Key, Name |-> row.Name,
     Description |-> row.Description, ParentID |-> row.ParentID,
     Actions |-> {a \in st.actions : a.ResourceID = row.ID},
     SubResources |-> {}]

\* Preload("Actions").Preload("SubResources"): the row with its own actions
\* and its immediate children
Hydrate(st, row) ==
    [ID |-> row.ID, Key |-> row.Key, Name |-> row.Name,
     Description |-> row.Description, ParentID |-> row.ParentID,
     Actions |-> {a \in st.actions : a.ResourceID = row.ID},
     SubResources |-> {c \in st.resources : c.ParentID = row.ID}]

\* the unique index idx_parent_key on (key, parent_id); parent_id NULL (0
\* here) never collides, NULLs being distinct in a unique index
ViolatesParentKey(st, key, parentID) ==
    /\ parentID # 0
    /\ \E r \in st.resources : r.Key = key /\ r.ParentID = parentID

StorageCreateResource(st, resource, fail) ==
    IF fail THEN [err |-> ErrDB, id |-> 0, st |-> st]
    ELSE IF ViolatesParentKey(st, resource.Key, resource.ParentID)
    THEN [err |-> ErrUniqueConstraint, id |-> 0, st |-> st]
    ELSE IF /\ st.foreignKeys
            /\ resource.ParentID # 0
            /\ ~\E r \in st.resources : r.ID = resource.ParentID
    THEN [err |-> ErrForeignKeyConstraint, id |-> 0, st |-> st]
    ELSE LET row == [ID |-> st.nextResourceID, Key |-> resource.Key,
                     Name |-> resource.Name, Description |-> resource.Description,
                     ParentID |-> resource.ParentID]
         IN [err |-> NoErr, id |-> row.ID,
             st |-> [st EXCEPT !.resources = @ \cup {row}, !.nextResourceID = @ + 1]]

\* the lookup with the parent filter dropped
StorageGetResourceAnyParent(st, key, parentID, fail) ==
    IF fail THEN [err |-> ErrDB, val |-> Nil]
    ELSE LET rows == {r \in st.resources : r.Key = key}
         IN IF rows = {} THEN [err |-> ErrResourceNotFound, val |-> Nil]
            ELSE [err |-> NoErr, val |-> Hydrate(st, FirstByID(rows))]

\* parentID = 0 is the nil pointer: "parent_id IS NULL"
StorageGetResource(st, key, parentID, fail) ==
    IF fail THEN [err |-> ErrDB, val |-> Nil]
    ELSE LET rows == {r \in st.resources : r.Key = key /\ r.ParentID = parentID}
         IN IF rows = {} THEN [err |-> ErrResourceNotFound, val |-> Nil]
            ELSE [err |-> NoErr, val |-> Hydrate(st, FirstByID(rows))]

StorageGetResourceByID(st, id, fail) ==
    IF fail THEN [err |-> ErrDB, val |-> Nil]
    ELSE LET rows == {r \in st.resources : r.ID = id}
         IN IF rows = {} THEN [err |-> ErrResourceNotFound, val |-> Nil]
            ELSE [err |-> NoErr, val |-> Hydrate(st, FirstByID(rows))]

\* the ids reached from ids through parent_id: what ON DELETE CASCADE removes
RECURSIVE Subtree(_, _)
Subtree(st, ids) ==
    LET more == ids \cup {r.ID : r \in {c \in st.resources : c.ParentID \in ids}}
    IN IF more = ids THEN ids ELSE Subtree(st, more)

\* DELETE FROM resources WHERE id = ?; the constraints OnDelete:CASCADE act
\* only when the database enforces foreign keys
StorageDeleteResource(st, id, fail) ==
    IF fail THEN [err |-> ErrDB, st |-> st]
    ELSE LET gone == IF st.foreignKeys THEN Subtree(st, {id}) ELSE {id}
         IN [err |-> NoErr,
             st |-> [st EXCEPT
                       !.resources = {r \in @ : r.ID \notin gone},
                       !.actions = IF st.foreignKeys
                                   THEN {a \in @ : a.ResourceID \notin gone}
                                   ELSE @]]

\* one INSERT for the whole batch: all rows or none
\* CreateActions on a table without the unique index on (resource, key)
StorageCreateActionsUnindexed(st, resourceID, actions, fail) ==
    IF fail THEN [err |-> ErrDB, st |-> st]
    ELSE IF Len(actions) = 0 THEN [err |-> ErrEmptySlice, st |-> st]
    ELSE IF st.foreignKeys /\ ~\E r \in st.resources : r.ID = resourceID
    THEN [err |-> ErrForeignKeyConstraint, st |-> st]
    ELSE LET rows == {[ID |-> st.nextActionID + i - 1, Key |-> actions[i].Key,
                       Name |-> actions[i].Name, ResourceID |-> resourceID] :
                      i \in 1..Len(actions)}
         IN [err |-> NoErr,
             st |-> [st EXCEPT !.actions = @ \cup rows,
                               !.nextActionID = @ + Len(actions)]]

StorageCreateActions(st, resourceID, actions, fail) ==
    IF fail THEN [err |-> ErrDB, st |-> st]
    ELSE IF Len(actions) = 0 THEN [err |-> ErrEmptySlice, st |-> st]
    ELSE IF \/ \E i, j \in 1..Len(actions) : i # j /\ actions[i].Key = actions[j].Key
            \/ \E i \in 1..Len(actions) : \E a \in st.actions :
                   a.Key = actions[i].Key /\ a.ResourceID = resourceID
    THEN [err |-> ErrUniqueConstraint, st |-> st]
    ELSE IF st.foreignKeys /\ ~\E r \in st.resources : r.ID = resourceID
    THEN [err |-> ErrForeignKeyConstraint, st |-> st]
    ELSE LET rows == {[ID |-> st.nextActionID + i - 1, Key |-> actions[i].Key,
                       Name |-> actions[i].Name, ResourceID |-> resourceID] :
                      i \in 1..Len(actions)}
         IN [err |-> NoErr,
             st |-> [st EXCEPT !.actions = @ \cup rows,
                               !.nextActionID = @ + Len(actions)]]

----------------------------------------------------------------------------
(* manager.go: resources *)

parseResourcePath(path) == Split(path)

\* the loop of getResourceByPath looking every key up in the root scope
RECURSIVE ResolveFromRootScope(_, _, _, _, _)
ResolveFromRootScope(st, keys, i, parentID, f) ==
    LET got == StorageGetResource(st, keys[i], 0, f = i)
    IN IF got.err # NoErr THEN [err |-> got.err, ret |-> Nil, calls |-> i]
       ELSE IF i = Len(keys) THEN [err |-> NoErr, ret |-> got.val, calls |-> i]
       ELSE ResolveFromRootScope(st, keys, i + 1, got.val.ID, f)

\* the loop of getResourceByPath from the i-th key on; the i-th iteration
\* makes the i-th storage call; calls counts the storage calls made
RECURSIVE ResolveFrom(_, _, _, _, _)
ResolveFrom(st, keys, i, parentID, f) ==
    LET got == StorageGetResource(st, keys[i], parentID, f = i)
    IN IF got.err # NoErr THEN [err |-> got.err, ret |-> Nil, calls |-> i]
       ELSE IF i = Len(keys) THEN [err |-> NoErr, ret |-> got.val, calls |-> i]
       ELSE ResolveFrom(st, keys, i + 1, got.val.ID, f)

getResourceByPath(st, path, f) ==
    LET keys == parseResourcePath(path)
    IN IF Len(keys) = 0
       THEN [err |-> ErrInvalidResourcePath, ret |-> Nil, calls |-> 0]
       ELSE ResolveFrom(st, keys, 1, 0, f)

\* the sub-resource loop of CreateResource from the i-th sub-resource on,
\* after n storage calls
RECURSIVE CreateSubResourcesFrom(_, _, _, _, _, _)
CreateSubResourcesFrom(st, parentID, subs, i, n, f) ==
    IF i > Len(subs) THEN [err |-> NoErr, st |-> st, calls |-> n]
    ELSE LET subConfig == subs[i]
             subResource == [Key |-> subConfig.Key, Name |-> subConfig.Name,
                             Description |-> subConfig.Description,
                             ParentID |-> parentID]
             created == StorageCreateResource(st, subResource, f = n + 1)
         IN IF created.err # NoErr
            THEN [err |-> created.err, st |-> created.st, calls |-> n + 1]
            ELSE IF Len(subConfig.Actions) > 0
            THEN LET acts == StorageCreateActions(created.st, created.id,
                                                  subConfig.Actions, f = n + 2)
                 IN IF acts.err # NoErr
                    THEN [err |-> acts.err, st |-> acts.st, calls |-> n + 2]
                    ELSE CreateSubResourcesFrom(acts.st, parentID, subs, i + 1, n + 2, f)
            ELSE CreateSubResourcesFrom(created.st, parentID, subs, i + 1, n + 1, f)

\* CreateResource undoing the rows of its earlier steps when a later step fails
CreateResourceRollingBack(st, config, f) ==
    LET existing == StorageGetResource(st, config.Key, 0, f = 1)
    IN IF existing.err = NoErr /\ existing.val # Nil
       THEN [err |-> ErrResourceExists, ret |-> Nil, st |-> st, calls |-> 1]
       ELSE LET resource == [Key |-> config.Key, Name |-> config.Name,
                             Description |-> config.Description, ParentID |-> 0]
                created == StorageCreateResource(st, resource, f = 2)
            IN IF created.err # NoErr
               THEN [err |-> created.err, ret |-> Nil, st |-> created.st,
                     calls |-> 2]
               ELSE LET hasActions == Len(config.Actions) > 0
                        acts == IF hasActions
                                THEN StorageCreateActions(created.st, created.id,
                                                          config.Actions, f = 3)
                                ELSE [err |-> NoErr, st |-> created.st]
                        n == IF hasActions THEN 3 ELSE 2
                    IN IF acts.err # NoErr
                       THEN [err |-> acts.err, ret |-> Nil, st |-> st,
                             calls |-> 3]
                       ELSE LET subs == CreateSubResourcesFrom(acts.st, created.id,
                                                config.SubResources, 1, n, f)
                            IN IF subs.err # NoErr
                               THEN [err |-> subs.err, ret |-> Nil, st |-> st,
                                     calls |-> subs.calls]
                               ELSE LET reload == StorageGetResourceByID(subs.st,
                                                      created.id, f = subs.calls + 1)
                                    IN [err |-> reload.err, ret |-> reload.val,
                                        st |-> subs.st, calls |-> subs.calls + 1]

CreateResource(st, config, f) ==
    LET existing == StorageGetResource(st, config.Key, 0, f = 1)
    IN IF existing.err = NoErr /\ existing.val # Nil
       THEN [err |-> ErrResourceExists, ret |-> Nil, st |-> st, calls |-> 1]
       ELSE LET resource == [Key |-> config.Key, Name |-> config.Name,
                             Description |-> config.Description, ParentID |-> 0]
                created == StorageCreateResource(st, resource, f = 2)
            IN IF created.err # NoErr
               THEN [err |-> created.err, ret |-> Nil, st |-> created.st,
                     calls |-> 2]
               ELSE LET hasActions == Len(config.Actions) > 0
                        acts == IF hasActions
                                THEN StorageCreateActions(created.st, created.id,
                                                          config.Actions, f = 3)
                                ELSE [err |-> NoErr, st |-> created.st]
                        n == IF hasActions THEN 3 ELSE 2
                    IN IF acts.err # NoErr
                       THEN [err |-> acts.err, ret |-> Nil, st |-> acts.st,
                             calls |-> 3]
                       ELSE LET subs == CreateSubResourcesFrom(acts.st, created.id,
                                                config.SubResources, 1, n, f)
                            IN IF subs.err # NoErr
                               THEN [err |-> subs.err, ret |-> Nil, st |-> subs.st,
                                     calls |-> subs.calls]
                               ELSE LET reload == StorageGetResourceByID(subs.st,
                                                      created.id, f = subs.calls + 1)
                                    IN [err |-> reload.err, ret |-> reload.val,
                                        st |-> subs.st, calls |-> subs.calls + 1]

AddActions(st, resourcePath, actions, f) ==
    LET resource == getResourceByPath(st, resourcePath, f)
    IN IF resource.err # NoErr
       THEN [err |-> resource.err, st |-> st, calls |-> resource.calls]
       ELSE LET acts == StorageCreateActions(st, resource.ret.ID, actions,
                                             f = resource.calls + 1)
            IN [err |-> acts.err, st |-> acts.st, calls |-> resource.calls + 1]

\* the loop of CreateResources from the i-th candidate on, after n storage calls
RECURSIVE CreateResourcesFrom(_, _, _, _, _, _)
CreateResourcesFrom(st, parentID, subs, i, n, f) ==
    IF i > Len(subs) THEN [err |-> NoErr, st |-> st, calls |-> n]
    ELSE LET subConfig == subs[i]
             existing == StorageGetResource(st, subConfig.Key, parentID, f = n + 1)
         IN IF existing.err = NoErr /\ existing.val # Nil
            THEN IF Len(subConfig.Actions) > 0
                 THEN LET acts == StorageCreateActions(st, existing.val.ID,
                                                       subConfig.Actions, f = n + 2)
                      IN IF acts.err # NoErr
                         THEN [err |-> acts.err, st |-> acts.st, calls |-> n + 2]
                         ELSE CreateResourcesFrom(acts.st, parentID, subs, i + 1, n + 2, f)
                 ELSE CreateResourcesFrom(st, parentID, subs, i + 1, n + 1, f)
            ELSE LET subResource == [Key |-> subConfig.Key, Name |-> subConfig.Name,
                                     Description |-> subConfig.Description,
                                     ParentID |-> parentID]
                     created == StorageCreateResource(st, subResource, f = n + 2)
                 IN IF created.err # NoErr
                    THEN [err |-> created.err, st |-> created.st, calls |-> n + 2]
                    ELSE IF Len(subConfig.Actions) > 0
                    THEN LET acts == StorageCreateActions(created.st, created.id,
                                                          subConfig.Actions, f = n + 3)
                         IN IF acts.err # NoErr
                            THEN [err |-> acts.err, st |-> acts.st, calls |-> n + 3]
                            ELSE CreateResourcesFrom(acts.st, parentID, subs,
                                                     i + 1, n + 3, f)
                    ELSE CreateResourcesFrom(created.st, parentID, subs, i + 1, n + 2, f)

CreateResources(st, parentPath, subResources, f) ==
    LET parent == getResourceByPath(st, parentPath, f)
    IN IF parent.err # NoErr
       THEN [err |-> parent.err, st |-> st, calls |-> parent.calls]
       ELSE CreateResourcesFrom(st, parent.ret.ID, subResources, 1, parent.calls, f)

GetResource(st, path, f) == getResourceByPath(st, path, f)

\* DeleteResource taking the grants on the deleted path away from every role
DeleteResourceRevoking(st, path, f) ==
    LET resource == getResourceByPath(st, path, f)
    IN IF resource.err # NoErr
       THEN [err |-> resource.err, st |-> st, calls |-> resource.calls]
       ELSE LET deleted == StorageDeleteResource(st, resource.ret.ID,
                                                 f = resource.calls + 1)
                kept(perms) == SelectSeq(perms,
                                  LAMBDA p : p # path /\ ~HasPrefix(p, path \o Dot))
            IN [err |-> deleted.err,
                st |-> [deleted.st EXCEPT !.roles =
                           {[r EXCEPT !.Permissions = kept(@)] : r \in @}],
                calls |-> resource.calls + 1]

DeleteResource(st, path, f) ==
    LET resource == getResourceByPath(st, path, f)
    IN IF resource.err # NoErr
       THEN [err |-> resource.err, st |-> st, calls |-> resource.calls]
       ELSE LET deleted == StorageDeleteResource(st, resource.ret.ID,
                                                 f = resource.calls + 1)
            IN [err |-> deleted.err, st |-> deleted.st, calls |-> resource.calls + 1]

----------------------------------------------------------------------------
(* manager.go: roles *)

\* the loop appending every incoming permission, present or not
RECURSIVE AppendAll(_, _, _)
AppendAll(perms, permissions, i) ==
    IF i > Len(permissions) THEN perms
    ELSE AppendAll(Append(perms, permissions[i]), permissions, i + 1)

\* the loop putting a missing permission in front of the list
RECURSIVE PrependMissing(_, _, _)
PrependMissing(perms, permissions, i) ==
    IF i > Len(permissions) THEN perms
    ELSE IF \E j \in 1..Len(perms) : perms[j] = permissions[i]
    THEN PrependMissing(perms, permissions, i + 1)
    ELSE PrependMissing(<<permissions[i]>> \o perms, permissions, i + 1)

\* the loop of AssignPermissions: append permissions[i..] not yet in perms
RECURSIVE AppendMissing(_, _, _)
AppendMissing(perms, permissions, i) ==
    IF i > Len(permissions) THEN perms
    ELSE IF \E j \in 1..Len(perms) : perms[j] = permissions[i]
    THEN AppendMissing(perms, permissions, i + 1)
    ELSE AppendMissing(Append(perms, permissions[i]), permissions, i + 1)

\* CreateRole storing the initial list with its repeats dropped
CreateRoleDedup(st, key, config, f) ==
    LET existing == StorageGetRole(st, key, f = 1)
    IN IF existing.err = NoErr /\ existing.val # Nil
       THEN [err |-> ErrRoleExists, ret |-> Nil, st |-> st]
       ELSE LET role == [ID |-> 0, Key |-> key, Name |-> config.Name,
                         Description |-> config.Description,
                         Permissions |-> AppendMissing(<<>>, config.Permissions, 1)]
                created == StorageCreateRole(st, role, f = 2)
            IN IF created.err # NoErr
               THEN [err |-> created.err, ret |-> Nil, st |-> created.st]
               ELSE [err |-> NoErr, ret |-> created.val, st |-> created.st]

CreateRole(st, key, config, f) ==
    LET existing == StorageGetRole(st, key, f = 1)
    IN IF existing.err = NoErr /\ existing.val # Nil
       THEN [err |-> ErrRoleExists, ret |-> Nil, st |-> st]
       ELSE LET role == [ID |-> 0, Key |-> key, Name |-> config.Name,
                         Description |-> config.Description,
                         Permissions |-> config.Permissions]
                created == StorageCreateRole(st, role, f = 2)
            IN IF created.err # NoErr
               THEN [err |-> created.err, ret |-> Nil, st |-> created.st]
               ELSE [err |-> NoErr, ret |-> created.val, st |-> created.st]

\* AssignPermissions comparing each incoming permission with the list as
\* loaded only, the membership set never updated
AssignPermissionsStaleSet(st, roleKey, permissions, f) ==
    LET got == StorageGetRole(st, roleKey, f = 1)
    IN IF got.err # NoErr THEN [err |-> got.err, st |-> st]
       ELSE LET loaded == got.val.Permissions
                role == [got.val EXCEPT
                            !.Permissions = @ \o
                                SelectSeq(permissions,
                                          LAMBDA x : \A j \in 1..Len(loaded) : loaded[j] # x)]
                saved == StorageUpdateRole(st, role, f = 2)
            IN [err |-> saved.err, st |-> saved.st]

\* AssignPermissions storing the given list in place of the loaded one
AssignPermissionsReplacing(st, roleKey, permissions, f) ==
    LET got == StorageGetRole(st, roleKey, f = 1)
    IN IF got.err # NoErr THEN [err |-> got.err, st |-> st]
       ELSE LET role == [got.val EXCEPT !.Permissions = permissions]
                saved == StorageUpdateRole(st, role, f = 2)
            IN [err |-> saved.err, st |-> saved.st]

AssignPermissions(st, roleKey, permissions, f) ==
    LET got == StorageGetRole(st, roleKey, f = 1)
    IN IF got.err # NoErr THEN [err |-> got.err, st |-> st]
       ELSE LET role == [got.val EXCEPT
                            !.Permissions = AppendMissing(@, permissions, 1)]
                saved == StorageUpdateRole(st, role, f = 2)
            IN [err |-> saved.err, st |-> saved.st]

\* the filter loop dropping every permission the matcher relates to a
\* permission to remove
RECURSIVE FilterOutRelated(_, _, _)
FilterOutRelated(perms, toRemove, i) ==
    IF i > Len(perms) THEN <<>>
    ELSE IF \E t \in toRemove : CheckPermission(t, perms[i])
    THEN FilterOutRelated(perms, toRemove, i + 1)
    ELSE <<perms[i]>> \o FilterOutRelated(perms, toRemove, i + 1)

\* the filter loop of RemovePermissions
RECURSIVE FilterOut(_, _, _)
FilterOut(perms, toRemove, i) ==
    IF i > Len(perms) THEN <<>>
    ELSE IF perms[i] \in toRemove THEN FilterOut(perms, toRemove, i + 1)
    ELSE <<perms[i]>> \o FilterOut(perms, toRemove, i + 1)

RemovePermissions(st, roleKey, permissions, f) ==
    LET got == StorageGetRole(st, roleKey, f = 1)
    IN IF got.err # NoErr THEN [err |-> got.err, st |-> st]
       ELSE LET toRemove == {permissions[i] : i \in DOMAIN permissions}
                role == [got.val EXCEPT !.Permissions = FilterOut(@, toRemove, 1)]
                saved == StorageUpdateRole(st, role, f = 2)
            IN [err |-> saved.err, st |-> saved.st]

GetRole(st, key, f) ==
    LET got == StorageGetRole(st, key, f = 1)
    IN [err |-> got.err, ret |-> got.val]

DeleteRole(st, key, f) ==
    LET got == StorageGetRole(st, key, f = 1)
    IN IF got.err # NoErr THEN [err |-> got.err, st |-> st]
       ELSE LET deleted == StorageDeleteRole(st, got.val.ID, f = 2)
            IN [err |-> deleted.err, st |-> deleted.st]

----------------------------------------------------------------------------
(* permission.go: role checks *)

\* CheckRolePermission returning the verdict on the role's first permission
CheckRolePermissionFirstPerm(st, roleKey, requiredPermission, fail) ==
    LET got == StorageGetRole(st, roleKey, fail)
    IN IF got.err # NoErr THEN [ret |-> FALSE, err |-> got.err]
       ELSE [ret |-> /\ Len(got.val.Permissions) > 0
                     /\ CheckPermission(requiredPermission, got.val.Permissions[1]),
             err |-> NoErr]

\* fail: the GetRole this call makes fails in the database
CheckRolePermission(st, roleKey, requiredPermission, fail) ==
    LET got == StorageGetRole(st, roleKey, fail)
    IN IF got.err # NoErr THEN [ret |-> FALSE, err |-> got.err]
       ELSE [ret |-> CheckPermissions(requiredPermission, got.val.Permissions),
             err |-> NoErr]

\* the range loop returning the error of a role that does not exist
RECURSIVE CheckRolesPermissionNoSkip(_, _, _, _, _)
CheckRolesPermissionNoSkip(st, roleKeys, requiredPermission, i, f) ==
    IF i > Len(roleKeys) THEN [ret |-> FALSE, err |-> NoErr]
    ELSE LET one == CheckRolePermission(st, roleKeys[i], requiredPermission, f = i)
         IN IF one.err # NoErr THEN [ret |-> FALSE, err |-> one.err]
            ELSE IF one.ret THEN [ret |-> TRUE, err |-> NoErr]
            ELSE CheckRolesPermissionNoSkip(st, roleKeys, requiredPermission, i + 1, f)

\* the range loop going on to the next role after any error
RECURSIVE CheckRolesPermissionSkipAll(_, _, _, _, _)
CheckRolesPermissionSkipAll(st, roleKeys, requiredPermission, i, f) ==
    IF i > Len(roleKeys) THEN [ret |-> FALSE, err |-> NoErr]
    ELSE LET one == CheckRolePermission(st, roleKeys[i], requiredPermission, f = i)
         IN IF one.err # NoErr
            THEN CheckRolesPermissionSkipAll(st, roleKeys, requiredPermission, i + 1, f)
            ELSE IF one.ret THEN [ret |-> TRUE, err |-> NoErr]
            ELSE CheckRolesPermissionSkipAll(st, roleKeys, requiredPermission, i + 1, f)

\* the range loop of CheckRolesPermission, from index i on; the i-th
\* iteration makes the i-th storage call
RECURSIVE CheckRolesPermissionFrom(_, _, _, _, _)
CheckRolesPermissionFrom(st, roleKeys, requiredPermission, i, f) ==
    IF i > Len(roleKeys) THEN [ret |-> FALSE, err |-> NoErr]
    ELSE LET one == CheckRolePermission(st, roleKeys[i], requiredPermission, f = i)
         IN IF one.err # NoErr
            THEN IF one.err = ErrRoleNotFound
                 THEN CheckRolesPermissionFrom(st, roleKeys, requiredPermission, i + 1, f)
                 ELSE [ret |-> FALSE, err |-> one.err]
            ELSE IF one.ret THEN [ret |-> TRUE, err |-> NoErr]
            ELSE CheckRolesPermissionFrom(st, roleKeys, requiredPermission, i + 1, f)

CheckRolesPermission(st, roleKeys, requiredPermission, f) ==
    CheckRolesPermissionFrom(st, roleKeys, requiredPermission, 1, f)

NoCall == [op |-> "none"]

\* no caller is inside a Manager call
NoPending == <<>>

----------------------------------------------------------------------------
(* The matcher called on one pair of strings *)

InitCheckPermission ==
    /\ required \in PermStrings
    /\ given \in PermStrings
    /\ givenPermissions = <<>>
    /\ storage = EmptyStorage(FALSE)
    /\ last = NoCall
    /\ pending = NoPending

CallCheckPermission ==
    /\ last.op = "none"
    /\ last' = [op |-> "CheckPermission",
                ret |-> CheckPermission(required, given),
                rev |-> CheckPermission(given, required)]
    /\ UNCHANGED <<required, given, givenPermissions, pending, storage>>

NextCheckPermission == CallCheckPermission

SpecCheckPermission == InitCheckPermission /\ [][NextCheckPermission]_vars

----------------------------------------------------------------------------
(* The matcher called on a list of given permissions *)

InitCheckPermissions ==
    /\ required \in ListStrings
    /\ given = <<>>
    /\ givenPermissions \in SeqsUpTo(ListStrings, MaxList)
    /\ storage = EmptyStorage(FALSE)
    /\ last = NoCall
    /\ pending = NoPending

CallCheckPermissions ==
    /\ last.op = "none"
    /\ last' = [op |-> "CheckPermissions",
                ret |-> CheckPermissions(required, givenPermissions)]
    /\ UNCHANGED <<required, given, givenPermissions, pending, storage>>

NextCheckPermissions == CallCheckPermissions

SpecCheckPermissions == InitCheckPermissions /\ [][NextCheckPermissions]_vars

----------------------------------------------------------------------------
(* The Manager used for roles, one call after the other *)

RoleKeys == {"ghost", "viewer"}

RoleConfigMeta ==
    {[Name |-> "Viewer", Description |-> "read only"],
     [Name |-> "Editor", Description |-> "can edit"]}

\* permission strings granted to roles, and the ones asked for
GrantedStrings == {sArticle, sArticleRead}

RequiredStrings == {sArticle, sArticleRead, sArticleDelete}

\* the permission lists handed over: every list of up to MaxPerms granted
\* strings, and a list of the shape ["a", "a", "b"]
PermissionLists ==
    SeqsUpTo(GrantedStrings, MaxPerms) \cup {<<sArticle, sArticle, sArticleRead>>}

RoleKeyLists == SeqsUpTo(RoleKeys, MaxRoleKeys)

MatcherIdle ==
    required = <<>> /\ given = <<>> /\ givenPermissions = <<>> /\ pending = NoPending

InitRoles ==
    /\ MatcherIdle
    /\ storage = EmptyStorage(FALSE)
    /\ last = NoCall

CallCreateRole(f) ==
    /\ last = NoCall
    /\ \E key \in RoleKeys, meta \in RoleConfigMeta, perms \in PermissionLists :
        LET config == [Name |-> meta.Name, Description |-> meta.Description,
                       Permissions |-> perms]
            r == CreateRole(storage, key, config, f)
        IN /\ storage.nextRoleID <= MaxRoleID
           /\ storage' = r.st
           /\ last' = [op |-> "CreateRole", key |-> key, config |-> config,
                       err |-> r.err, ret |-> r.ret]
           /\ UNCHANGED <<required, given, givenPermissions, pending>>

CallAssignPermissions(f) ==
    /\ last = NoCall
    /\ \E key \in RoleKeys, perms \in PermissionLists :
        LET r == AssignPermissions(storage, key, perms, f)
        IN /\ storage' = r.st
           /\ last' = [op |-> "AssignPermissions", key |-> key,
                       permissions |-> perms, err |-> r.err]
           /\ UNCHANGED <<required, given, givenPermissions, pending>>

CallRemovePermissions(f) ==
    /\ last = NoCall
    /\ \E key \in RoleKeys, perms \in PermissionLists :
        LET r == RemovePermissions(storage, key, perms, f)
        IN /\ storage' = r.st
           /\ last' = [op |-> "RemovePermissions", key |-> key,
                       permissions |-> perms, err |-> r.err]
           /\ UNCHANGED <<required, given, givenPermissions, pending>>

CallGetRole(f) ==
    /\ last = NoCall
    /\ \E key \in RoleKeys :
        LET r == GetRole(storage, key, f)
        IN /\ last' = [op |-> "GetRole", key |-> key, err |-> r.err, ret |-> r.ret]
           /\ UNCHANGED <<required, given, givenPermissions, pending, storage>>

CallDeleteRole(f) ==
    /\ last = NoCall
    /\ \E key \in RoleKeys :
        LET r == DeleteRole(storage, key, f)
        IN /\ storage' = r.st
           /\ last' = [op |-> "DeleteRole", key |-> key, err |-> r.err]
           /\ UNCHANGED <<required, given, givenPermissions, pending>>

CallCheckRolePermission(f) ==
    /\ last = NoCall
    /\ \E key \in RoleKeys, req \in RequiredStrings :
        LET r == CheckRolePermission(storage, key, req, f = 1)
        IN /\ last' = [op |-> "CheckRolePermission", key |-> key,
                       required |-> req, err |-> r.err, ret |-> r.ret]
           /\ UNCHANGED <<required, given, givenPermissions, pending, storage>>

CallCheckRolesPermission(f) ==
    /\ last = NoCall
    /\ \E keys \in RoleKeyLists, req \in RequiredStrings :
        LET r == CheckRolesPermission(storage, keys, req, f)
        IN /\ last' = [op |-> "CheckRolesPermission", keys |-> keys,
                       required |-> req, err |-> r.err, ret |-> r.ret]
           /\ UNCHANGED <<required, given, givenPermissions, pending, storage>>

\* the caller takes the result; the Manager is idle again
Return ==
    /\ last # NoCall
    /\ last' = NoCall
    /\ UNCHANGED <<required, given, givenPermissions, pending, storage>>

NextRoles ==
    \/ Return
    \/ CallCreateRole(NoFault)
    \/ CallAssignPermissions(NoFault)
    \/ CallRemovePermissions(NoFault)
    \/ CallGetRole(NoFault)
    \/ CallDeleteRole(NoFault)
    \/ CallCheckRolePermission(NoFault)
    \/ CallCheckRolesPermission(NoFault)

SpecRoles == InitRoles /\ [][NextRoles]_vars

----------------------------------------------------------------------------
(* The Manager used for resources, one call after the other *)

sComment == <<"c","o","m","m","e","n","t">>

\* the keys resources are created with
ResourceKeys == {sArticle, sComment}

ResourceMeta == {[Name |-> "Article", Description |-> "news article"]}

ActionValues == {[Key |-> "read", Name |-> "Read"]}

\* the action lists handed over: none, or one action
ActionLists == {<<>>} \cup {<<a>> : a \in ActionValues}

\* the Resource values a caller lists as sub-resources
SubResourceValues ==
    {[Key |-> k, Name |-> m.Name, Description |-> m.Description,
      Actions |-> a, SubResources |-> <<>>] :
        k \in ResourceKeys, m \in ResourceMeta, a \in ActionLists}

\* the sub-resource lists handed over: none, or one sub-resource
SubResourceLists == {<<>>} \cup {<<v>> : v \in SubResourceValues}

ResourceConfigs ==
    {[Key |-> k, Name |-> m.Name, Description |-> m.Description,
      Actions |-> a, SubResources |-> subs] :
        k \in ResourceKeys, m \in ResourceMeta, a \in ActionLists,
        subs \in SubResourceLists}

\* keys joined by "."
RECURSIVE Join(_)
Join(ks) ==
    IF Len(ks) = 1 THEN ks[1]
    ELSE ks[1] \o Dot \o Join(Tail(ks))

\* the paths handed over: the empty string, and keys joined by "."
Paths == {<<>>} \cup {Join(ks) : ks \in SeqsUpTo(ResourceKeys, MaxDepth) \ {<<>>}}

WithinIDs(st) ==
    /\ st.nextResourceID <= MaxResourceID + 1
    /\ st.nextActionID <= MaxActionID + 1

InitResources ==
    /\ MatcherIdle
    /\ storage \in {EmptyStorage(fk) : fk \in BOOLEAN}
    /\ last = NoCall

CallCreateResource(f) ==
    /\ last = NoCall
    /\ \E config \in ResourceConfigs :
        LET r == CreateResource(storage, config, f)
        IN /\ WithinIDs(r.st)
           /\ storage' = r.st
           /\ last' = [op |-> "CreateResource", config |-> config,
                       err |-> r.err, ret |-> r.ret, calls |-> r.calls,
                       fault |-> f]
           /\ UNCHANGED <<required, given, givenPermissions, pending>>

CallAddActions(f) ==
    /\ last = NoCall
    /\ \E path \in Paths, actions \in ActionLists :
        LET r == AddActions(storage, path, actions, f)
        IN /\ WithinIDs(r.st)
           /\ storage' = r.st
           /\ last' = [op |-> "AddActions", path |-> path, actions |-> actions,
                       err |-> r.err, calls |-> r.calls, fault |-> f]
           /\ UNCHANGED <<required, given, givenPermissions, pending>>

CallCreateResources(f) ==
    /\ last = NoCall
    /\ \E path \in Paths, subs \in SubResourceLists :
        LET r == CreateResources(storage, path, subs, f)
        IN /\ WithinIDs(r.st)
           /\ storage' = r.st
           /\ last' = [op |-> "CreateResources", path |-> path,
                       subResources |-> subs, err |-> r.err, calls |-> r.calls,
                       fault |-> f]
           /\ UNCHANGED <<required, given, givenPermissions, pending>>

CallGetResource(f) ==
    /\ last = NoCall
    /\ \E path \in Paths :
        LET r == GetResource(storage, path, f)
        IN /\ last' = [op |-> "GetResource", path |-> path,
                       err |-> r.err, ret |-> r.ret, calls |-> r.calls,
                       fault |-> f]
           /\ UNCHANGED <<required, given, givenPermissions, pending, storage>>

CallDeleteResource(f) ==
    /\ last = NoCall
    /\ \E path \in Paths :
        LET r == DeleteResource(storage, path, f)
        IN /\ storage' = r.st
           /\ last' = [op |-> "DeleteResource", path |-> path,
                       err |-> r.err, calls |-> r.calls, fault |-> f]
           /\ UNCHANGED <<required, given, givenPermissions, pending>>

NextResources ==
    \/ Return
    \/ CallCreateResource(NoFault)
    \/ CallAddActions(NoFault)
    \/ CallCreateResources(NoFault)
    \/ CallGetResource(NoFault)
    \/ CallDeleteResource(NoFault)

SpecResources == InitResources /\ [][NextResources]_vars

----------------------------------------------------------------------------
(* The resource operations of a Manager whose database may fail a call *)

\* the storage calls of one operation that may be made to fail: the 1st up
\* to the MaxFault-th
MaxFault == 6

FaultSubResourceLists ==
    {<<>>} \cup
    {<<[Key |-> sComment, Name |-> m.Name, Description |-> m.Description,
        Actions |-> a, SubResources |-> <<>>]>> :
        m \in ResourceMeta, a \in ActionLists}

FaultResourceConfigs ==
    {[Key |-> sArticle, Name |-> m.Name, Description |-> m.Description,
      Actions |-> a, SubResources |-> subs] :
        m \in ResourceMeta, a \in ActionLists, subs \in FaultSubResourceLists}

FaultPaths == {sArticle, sArticle \o Dot \o sComment}

FaultyCreateResource ==
    /\ last = NoCall
    /\ \E config \in FaultResourceConfigs, f \in 0..MaxFault :
        LET r == CreateResource(storage, config, f)
        IN /\ WithinIDs(r.st)
           /\ storage' = r.st
           /\ last' = [op |-> "CreateResource", config |-> config,
                       err |-> r.err, ret |-> r.ret, calls |-> r.calls,
                       fault |-> f]
           /\ UNCHANGED <<required, given, givenPermissions, pending>>

FaultyAddActions ==
    /\ last = NoCall
    /\ \E path \in FaultPaths, actions \in ActionLists, f \in 0..MaxFault :
        LET r == AddActions(storage, path, actions, f)
        IN /\ WithinIDs(r.st)
           /\ storage' = r.st
           /\ last' = [op |-> "AddActions", path |-> path, actions |-> actions,
                       err |-> r.err, calls |-> r.calls, fault |-> f]
           /\ UNCHANGED <<required, given, givenPermissions, pending>>

FaultyCreateResources ==
    /\ last = NoCall
    /\ \E path \in FaultPaths, subs \in FaultSubResourceLists, f \in 0..MaxFault :
        LET r == CreateResources(storage, path, subs, f)
        IN /\ WithinIDs(r.st)
           /\ storage' = r.st
           /\ last' = [op |-> "CreateResources", path |-> path,
                       subResources |-> subs, err |-> r.err, calls |-> r.calls,
                       fault |-> f]
           /\ UNCHANGED <<required, given, givenPermissions, pending>>

FaultyGetResource ==
    /\ last = NoCall
    /\ \E path \in FaultPaths, f \in 0..MaxFault :
        LET r == GetResource(storage, path, f)
        IN /\ last' = [op |-> "GetResource", path |-> path,
                       err |-> r.err, ret |-> r.ret, calls |-> r.calls,
                       fault |-> f]
           /\ UNCHANGED <<required, given, givenPermissions, pending, storage>>

FaultyDeleteResource ==
    /\ last = NoCall
    /\ \E path \in FaultPaths, f \in 0..MaxFault :
        LET r == DeleteResource(storage, path, f)
        IN /\ storage' = r.st
           /\ last' = [op |-> "DeleteResource", path |-> path,
                       err |-> r.err, calls |-> r.calls, fault |-> f]
           /\ UNCHANGED <<required, given, givenPermissions, pending>>

NextResourceFaults ==
    \/ Return
    \/ FaultyCreateResource
    \/ FaultyAddActions
    \/ FaultyCreateResources
    \/ FaultyGetResource
    \/ FaultyDeleteResource

SpecResourceFaults == InitResources /\ [][NextResourceFaults]_vars

----------------------------------------------------------------------------
(* The role operations called by two goroutines at once: every operation  *)
(* is its two storage calls, and the calls of the two callers interleave  *)

Callers == {"c1", "c2"}

ConcurrentRoleKey == "viewer"

\* the lists the concurrent AssignPermissions and RemovePermissions are given
ConcurrentPermissionLists == {<<sArticle>>, <<sArticleRead>>}

ConcurrentRoleConfig ==
    [Name |-> "Viewer", Description |-> "read only", Permissions |-> <<>>]

Idle == [phase |-> "idle"]

\* the caller is between the two storage calls of op; role is what its
\* GetRole returned; stale tells that the role was written by another call
\* since
Loaded(op, permissions, role) ==
    [phase |-> "loaded", op |-> op, permissions |-> permissions, role |-> role,
     stale |-> FALSE]

\* the call has returned err to the caller; role is what its GetRole had
\* returned
Returned(op, permissions, role, stale, err) ==
    [phase |-> "returned", op |-> op, permissions |-> permissions, role |-> role,
     stale |-> stale, err |-> err]

\* a write of the role by caller c: the other calls in flight now hold a
\* role that has been written since they loaded it
AfterWriteBy(c, mine) ==
    [d \in Callers |->
        IF d = c THEN mine
        ELSE IF pending[d].phase = "loaded" THEN [pending[d] EXCEPT !.stale = TRUE]
        ELSE pending[d]]

InitConcurrentRoles ==
    /\ required = <<>> /\ given = <<>> /\ givenPermissions = <<>>
    /\ storage = EmptyStorage(FALSE)
    /\ last = NoCall
    /\ pending = [c \in Callers |-> Idle]

\* CreateRole up to its lookup
BeginCreateRole(c) ==
    /\ pending[c].phase # "loaded"
    /\ storage.nextRoleID <= MaxRoleID
    /\ LET existing == StorageGetRole(storage, ConcurrentRoleKey, FALSE)
       IN pending' = [pending EXCEPT ![c] =
              IF existing.err = NoErr /\ existing.val # Nil
              THEN Returned("CreateRole", <<>>, existing.val, FALSE, ErrRoleExists)
              ELSE Loaded("CreateRole", <<>>, Nil)]
    /\ UNCHANGED <<required, given, givenPermissions, storage, last>>

\* CreateRole from its insert on
FinishCreateRole(c) ==
    /\ pending[c].phase = "loaded"
    /\ pending[c].op = "CreateRole"
    /\ LET role == [ID |-> 0, Key |-> ConcurrentRoleKey,
                    Name |-> ConcurrentRoleConfig.Name,
                    Description |-> ConcurrentRoleConfig.Description,
                    Permissions |-> ConcurrentRoleConfig.Permissions]
           created == StorageCreateRole(storage, role, FALSE)
       IN /\ storage' = created.st
          /\ pending' = AfterWriteBy(c, Returned("CreateRole", <<>>, Nil,
                                                 pending[c].stale, created.err))
    /\ UNCHANGED <<required, given, givenPermissions, last>>

\* what a caller holds after the GetRole that AssignPermissions,
\* RemovePermissions and DeleteRole start with
AfterGetRole(op, permissions) ==
    LET got == StorageGetRole(storage, ConcurrentRoleKey, FALSE)
    IN IF got.err # NoErr THEN Returned(op, permissions, Nil, FALSE, got.err)
       ELSE Loaded(op, permissions, got.val)

\* AssignPermissions up to its GetRole
BeginAssignPermissions(c) ==
    /\ pending[c].phase # "loaded"
    /\ \E permissions \in ConcurrentPermissionLists :
          pending' = [pending EXCEPT ![c] = AfterGetRole("AssignPermissions", permissions)]
    /\ UNCHANGED <<required, given, givenPermissions, storage, last>>

\* RemovePermissions up to its GetRole
BeginRemovePermissions(c) ==
    /\ pending[c].phase # "loaded"
    /\ \E permissions \in ConcurrentPermissionLists :
          pending' = [pending EXCEPT ![c] = AfterGetRole("RemovePermissions", permissions)]
    /\ UNCHANGED <<required, given, givenPermissions, storage, last>>

\* DeleteRole up to its GetRole
BeginDeleteRole(c) ==
    /\ pending[c].phase # "loaded"
    /\ pending' = [pending EXCEPT ![c] = AfterGetRole("DeleteRole", <<>>)]
    /\ UNCHANGED <<required, given, givenPermissions, storage, last>>

\* the role AssignPermissions hands to UpdateRole
AssignedRole(role, permissions) ==
    [role EXCEPT !.Permissions = AppendMissing(@, permissions, 1)]

\* AssignPermissions from its loop on
FinishAssignPermissions(c) ==
    /\ pending[c].phase = "loaded"
    /\ pending[c].op = "AssignPermissions"
    /\ LET role == AssignedRole(pending[c].role, pending[c].permissions)
           saved == StorageUpdateRole(storage, role, FALSE)
       IN /\ storage' = saved.st
          /\ pending' = AfterWriteBy(c, Returned("AssignPermissions",
                             pending[c].permissions, pending[c].role,
                             pending[c].stale, saved.err))
    /\ UNCHANGED <<required, given, givenPermissions, last>>

\* RemovePermissions from its filter on
FinishRemovePermissions(c) ==
    /\ pending[c].phase = "loaded"
    /\ pending[c].op = "RemovePermissions"
    /\ LET permissions == pending[c].permissions
           toRemove == {permissions[i] : i \in DOMAIN permissions}
           role == [pending[c].role EXCEPT !.Permissions = FilterOut(@, toRemove, 1)]
           saved == StorageUpdateRole(storage, role, FALSE)
       IN /\ storage' = saved.st
          /\ pending' = AfterWriteBy(c, Returned("RemovePermissions",
                             pending[c].permissions, pending[c].role,
                             pending[c].stale, saved.err))
    /\ UNCHANGED <<required, given, givenPermissions, last>>

\* DeleteRole from its delete on
FinishDeleteRole(c) ==
    /\ pending[c].phase = "loaded"
    /\ pending[c].op = "DeleteRole"
    /\ LET deleted == StorageDeleteRole(storage, pending[c].role.ID, FALSE)
       IN /\ storage' = deleted.st
          /\ pending' = AfterWriteBy(c, Returned("DeleteRole", <<>>, pending[c].role,
                                                 pending[c].stale, deleted.err))
    /\ UNCHANGED <<required, given, givenPermissions, last>>

NextConcurrentRoles ==
    \E c \in Callers :
        \/ BeginCreateRole(c)
        \/ FinishCreateRole(c)
        \/ BeginAssignPermissions(c)
        \/ FinishAssignPermissions(c)
        \/ BeginRemovePermissions(c)
        \/ FinishRemovePermissions(c)
        \/ BeginDeleteRole(c)
        \/ FinishDeleteRole(c)

SpecConcurrentRoles == InitConcurrentRoles /\ [][NextConcurrentRoles]_vars

----------------------------------------------------------------------------
(* The Manager building one resource tree: article, its actions, its       *)
(* sub-resource comment and a tag nested in the comment                    *)

\* most resource rows and action rows the tree operations may create
MaxTreeResourceID == 4

MaxTreeActionID == 6

sTag == <<"t","a","g">>

aRead == [Key |-> "read", Name |-> "Read"]

aCreate == [Key |-> "create", Name |-> "Create"]

aUpdate == [Key |-> "update", Name |-> "Update"]

\* the action lists handed over: none, one, three, two of the three, and
\* one key twice
TreeActionLists ==
    {<<>>, <<aRead>>, <<aRead, aCreate, aUpdate>>, <<aCreate, aUpdate>>, <<aRead, aRead>>}

\* the comment sub-resource, alone or with a tag listed inside it
TreeComments ==
    {[Key |-> sComment, Name |-> "Comment", Description |-> "article comments",
      Actions |-> <<aRead>>, SubResources |-> nested] :
        nested \in {<<>>, <<[Key |-> sTag, Name |-> "Tag",
                             Description |-> "comment tags",
                             Actions |-> <<>>, SubResources |-> <<>>]>>}}

TreeConfigs ==
    {[Key |-> sArticle, Name |-> "Article", Description |-> "news article",
      Actions |-> a, SubResources |-> subs] :
        a \in TreeActionLists,
        subs \in {<<>>} \cup {<<c>> : c \in TreeComments}}

TreePaths ==
    {sArticle, sArticle \o Dot \o sComment, sArticle \o Dot \o sComment \o Dot \o sTag}

\* the storage holds ids up to the given ones only
WithinCaps(st, maxResourceID, maxActionID) ==
    /\ st.nextResourceID <= maxResourceID + 1
    /\ st.nextActionID <= maxActionID + 1

TreeCreateResource ==
    /\ last = NoCall
    /\ \E config \in TreeConfigs :
        LET r == CreateResource(storage, config, NoFault)
        IN /\ WithinCaps(r.st, MaxTreeResourceID, MaxTreeActionID)
           /\ storage' = r.st
           /\ last' = [op |-> "CreateResource", config |-> config,
                       err |-> r.err, ret |-> r.ret, calls |-> r.calls,
                       fault |-> NoFault]
           /\ UNCHANGED <<required, given, givenPermissions, pending>>

TreeAddActions ==
    /\ last = NoCall
    /\ \E path \in TreePaths, actions \in TreeActionLists :
        LET r == AddActions(storage, path, actions, NoFault)
        IN /\ WithinCaps(r.st, MaxTreeResourceID, MaxTreeActionID)
           /\ storage' = r.st
           /\ last' = [op |-> "AddActions", path |-> path, actions |-> actions,
                       err |-> r.err, calls |-> r.calls, fault |-> NoFault]
           /\ UNCHANGED <<required, given, givenPermissions, pending>>

TreeGetResource ==
    /\ last = NoCall
    /\ \E path \in TreePaths :
        LET r == GetResource(storage, path, NoFault)
        IN /\ last' = [op |-> "GetResource", path |-> path,
                       err |-> r.err, ret |-> r.ret, calls |-> r.calls,
                       fault |-> NoFault]
           /\ UNCHANGED <<required, given, givenPermissions, pending, storage>>

TreeDeleteResource ==
    /\ last = NoCall
    /\ \E path \in TreePaths :
        LET r == DeleteResource(storage, path, NoFault)
        IN /\ storage' = r.st
           /\ last' = [op |-> "DeleteResource", path |-> path,
                       err |-> r.err, calls |-> r.calls, fault |-> NoFault]
           /\ UNCHANGED <<required, given, givenPermissions, pending>>

NextResourceTree ==
    \/ Return
    \/ TreeCreateResource
    \/ TreeAddActions
    \/ TreeGetResource
    \/ TreeDeleteResource

SpecResourceTree == InitResources /\ [][NextResourceTree]_vars

----------------------------------------------------------------------------
(* The Manager checking roles on a storage whose calls may fail *)

\* CheckRolesPermission with its f-th GetRole failing in the database
\* (f = 0: none fails)
FaultyCheckRolesPermission ==
    /\ last = NoCall
    /\ \E keys \in RoleKeyLists, req \in RequiredStrings, f \in 0..MaxRoleKeys :
        LET r == CheckRolesPermission(storage, keys, req, f)
        IN /\ last' = [op |-> "CheckRolesPermission", keys |-> keys,
                       required |-> req, err |-> r.err, ret |-> r.ret,
                       fault |-> f]
           /\ UNCHANGED <<required, given, givenPermissions, pending, storage>>

NextRoleFaults ==
    \/ Return
    \/ CallCreateRole(NoFault)
    \/ CallRemovePermissions(NoFault)
    \/ CallDeleteRole(NoFault)
    \/ FaultyCheckRolesPermission

SpecRoleFaults == InitRoles /\ [][NextRoleFaults]_vars

----------------------------------------------------------------------------
(* One Manager used for roles and for resources, one call after the other *)

\* most resource rows and action rows created next to the roles
MaxGrantResourceID == 2

MaxGrantActionID == 2

\* the permission lists roles are created with and are assigned
GrantLists == {<<>>, <<sArticleRead>>}

GrantRoleConfigs ==
    {[Name |-> "Viewer", Description |-> "read only", Permissions |-> perms] :
        perms \in GrantLists}

\* article with its read action, alone or with its comment sub-resource
GrantResourceConfigs ==
    {[Key |-> sArticle, Name |-> "Article", Description |-> "news article",
      Actions |-> <<aRead>>, SubResources |-> subs] :
        subs \in {<<>>, <<[Key |-> sComment, Name |-> "Comment",
                           Description |-> "article comments",
                           Actions |-> <<>>, SubResources |-> <<>>]>>}}

GrantPaths == {sArticle, sArticle \o Dot \o sComment}

GrantCreateRole ==
    /\ last = NoCall
    /\ \E key \in RoleKeys, config \in GrantRoleConfigs :
        LET r == CreateRole(storage, key, config, NoFault)
        IN /\ storage.nextRoleID <= MaxRoleID
           /\ storage' = r.st
           /\ last' = [op |-> "CreateRole", key |-> key, config |-> config,
                       err |-> r.err, ret |-> r.ret]
           /\ UNCHANGED <<required, given, givenPermissions, pending>>

GrantAssignPermissions ==
    /\ last = NoCall
    /\ \E key \in RoleKeys, perms \in GrantLists :
        LET r == AssignPermissions(storage, key, perms, NoFault)
        IN /\ storage' = r.st
           /\ last' = [op |-> "AssignPermissions", key |-> key,
                       permissions |-> perms, err |-> r.err]
           /\ UNCHANGED <<required, given, givenPermissions, pending>>

GrantDeleteRole ==
    /\ last = NoCall
    /\ \E key \in RoleKeys :
        LET r == DeleteRole(storage, key, NoFault)
        IN /\ storage' = r.st
           /\ last' = [op |-> "DeleteRole", key |-> key, err |-> r.err]
           /\ UNCHANGED <<required, given, givenPermissions, pending>>

GrantCheckRolePermission ==
    /\ last = NoCall
    /\ \E key \in RoleKeys, req \in {sArticle, sArticleRead} :
        LET r == CheckRolePermission(storage, key, req, FALSE)
        IN /\ last' = [op |-> "CheckRolePermission", key |-> key,
                       required |-> req, err |-> r.err, ret |-> r.ret]
           /\ UNCHANGED <<required, given, givenPermissions, pending, storage>>

GrantCreateResource ==
    /\ last = NoCall
    /\ \E config \in GrantResourceConfigs :
        LET r == CreateResource(storage, config, NoFault)
        IN /\ WithinCaps(r.st, MaxGrantResourceID, MaxGrantActionID)
           /\ storage' = r.st
           /\ last' = [op |-> "CreateResource", config |-> config,
                       err |-> r.err, ret |-> r.ret]
           /\ UNCHANGED <<required, given, givenPermissions, pending>>

GrantCreateResources ==
    /\ last = NoCall
    /\ LET subs == <<[Key |-> sComment, Name |-> "Comment",
                       Description |-> "article comments",
                       Actions |-> <<aRead>>, SubResources |-> <<>>]>>
           r == CreateResources(storage, sArticle, subs, NoFault)
       IN /\ WithinCaps(r.st, MaxGrantResourceID, MaxGrantActionID)
          /\ storage' = r.st
          /\ last' = [op |-> "CreateResources", path |-> sArticle,
                      subResources |-> subs, err |-> r.err]
          /\ UNCHANGED <<required, given, givenPermissions, pending>>

GrantAddActions ==
    /\ last = NoCall
    /\ \E path \in GrantPaths :
        LET r == AddActions(storage, path, <<aCreate>>, NoFault)
        IN /\ WithinCaps(r.st, MaxGrantResourceID, MaxGrantActionID)
           /\ storage' = r.st
           /\ last' = [op |-> "AddActions", path |-> path,
                       actions |-> <<aCreate>>, err |-> r.err]
           /\ UNCHANGED <<required, given, givenPermissions, pending>>

GrantDeleteResource ==
    /\ last = NoCall
    /\ \E path \in GrantPaths :
        LET r == DeleteResource(storage, path, NoFault)
        IN /\ storage' = r.st
           /\ last' = [op |-> "DeleteResource", path |-> path, err |-> r.err]
           /\ UNCHANGED <<required, given, givenPermissions, pending>>

NextRolesAndResources ==
    \/ Return
    \/ GrantCreateRole
    \/ GrantAssignPermissions
    \/ GrantDeleteRole
    \/ GrantCheckRolePermission
    \/ GrantCreateResource
    \/ GrantCreateResources
    \/ GrantAddActions
    \/ GrantDeleteResource

SpecRolesAndResources == InitResources /\ [][NextRolesAndResources]_vars

----------------------------------------------------------------------------
(* A Manager made by CreateManager() without WithStorage *)

\* Manager.storage left nil: the interface value holds nothing
NilStorage == [nil |-> TRUE]

\* what the caller gets from an operation whose first statement is a method
\* call on m.storage: a nil interface makes the call panic (nil pointer
\* dereference) and nothing is returned; otherwise the operation runs
ViaStorage(st, result) ==
    IF st = NilStorage THEN [panicked |-> TRUE]
    ELSE [panicked |-> FALSE, err |-> result.err]

InitNoStorage ==
    /\ MatcherIdle
    /\ storage = NilStorage
    /\ last = NoCall

NoStorageCreateResource ==
    /\ last = NoCall
    /\ \E config \in ResourceConfigs :
          last' = [op |-> "CreateResource", config |-> config,
                   out |-> ViaStorage(storage, CreateResource(storage, config, NoFault))]
    /\ UNCHANGED <<required, given, givenPermissions, pending, storage>>

NoStorageAddActions ==
    /\ last = NoCall
    /\ \E path \in Paths, actions \in ActionLists :
          last' = [op |-> "AddActions", path |-> path, actions |-> actions,
                   out |-> ViaStorage(storage, AddActions(storage, path, actions, NoFault))]
    /\ UNCHANGED <<required, given, givenPermissions, pending, storage>>

NoStorageCreateResources ==
    /\ last = NoCall
    /\ \E path \in Paths, subs \in SubResourceLists :
          last' = [op |-> "CreateResources", path |-> path, subResources |-> subs,
                   out |-> ViaStorage(storage, CreateResources(storage, path, subs, NoFault))]
    /\ UNCHANGED <<required, given, givenPermissions, pending, storage>>

NoStorageGetResource ==
    /\ last = NoCall
    /\ \E path \in Paths :
          last' = [op |-> "GetResource", path |-> path,
                   out |-> ViaStorage(storage, GetResource(storage, path, NoFault))]
    /\ UNCHANGED <<required, given, givenPermissions, pending, storage>>

NoStorageDeleteResource ==
    /\ last = NoCall
    /\ \E path \in Paths :
          last' = [op |-> "DeleteResource", path |-> path,
                   out |-> ViaStorage(storage, DeleteResource(storage, path, NoFault))]
    /\ UNCHANGED <<required, given, givenPermissions, pending, storage>>

NoStorageCreateRole ==
    /\ last = NoCall
    /\ \E key \in RoleKeys, meta \in RoleConfigMeta, perms \in PermissionLists :
          LET config == [Name |-> meta.Name, Description |-> meta.Description,
                         Permissions |-> perms]
          IN last' = [op |-> "CreateRole", key |-> key, config |-> config,
                      out |-> ViaStorage(storage, CreateRole(storage, key, config, NoFault))]
    /\ UNCHANGED <<required, given, givenPermissions, pending, storage>>

NoStorageAssignPermissions ==
    /\ last = NoCall
    /\ \E key \in RoleKeys, perms \in PermissionLists :
          last' = [op |-> "AssignPermissions", key |-> key, permissions |-> perms,
                   out |-> ViaStorage(storage, AssignPermissions(storage, key, perms, NoFault))]
    /\ UNCHANGED <<required, given, givenPermissions, pending, storage>>

NoStorageRemovePermissions ==
    /\ last = NoCall
    /\ \E key \in RoleKeys, perms \in PermissionLists :
          last' = [op |-> "RemovePermissions", key |-> key, permissions |-> perms,
                   out |-> ViaStorage(storage, RemovePermissions(storage, key, perms, NoFault))]
    /\ UNCHANGED <<required, given, givenPermissions, pending, storage>>

NoStorageGetRole ==
    /\ last = NoCall
    /\ \E key \in RoleKeys :
          last' = [op |-> "GetRole", key |-> key,
                   out |-> ViaStorage(storage, GetRole(storage, key, NoFault))]
    /\ UNCHANGED <<required, given, givenPermissions, pending, storage>>

NoStorageDeleteRole ==
    /\ last = NoCall
    /\ \E key \in RoleKeys :
          last' = [op |-> "DeleteRole", key |-> key,
                   out |-> ViaStorage(storage, DeleteRole(storage, key, NoFault))]
    /\ UNCHANGED <<required, given, givenPermissions, pending, storage>>

NoStorageCheckRolePermission ==
    /\ last = NoCall
    /\ \E key \in RoleKeys, req \in RequiredStrings :
          last' = [op |-> "CheckRolePermission", key |-> key, required |-> req,
                   out |-> ViaStorage(storage,
                                      CheckRolePermission(storage, key, req, FALSE))]
    /\ UNCHANGED <<required, given, givenPermissions, pending, storage>>

\* with no key the loop body never runs and no storage call is made
NoStorageCheckRolesPermission ==
    /\ last = NoCall
    /\ \E keys \in RoleKeyLists, req \in RequiredStrings :
          last' = [op |-> "CheckRolesPermission", keys |-> keys, required |-> req,
                   out |-> IF keys = <<>> THEN [panicked |-> FALSE, err |-> NoErr]
                           ELSE ViaStorage(storage,
                                    CheckRolesPermission(storage, keys, req, NoFault))]
    /\ UNCHANGED <<required, given, givenPermissions, pending, storage>>

NextNoStorage ==
    \/ Return
    \/ NoStorageCreateResource
    \/ NoStorageAddActions
    \/ NoStorageCreateResources
    \/ NoStorageGetResource
    \/ NoStorageDeleteResource
    \/ NoStorageCreateRole
    \/ NoStorageAssignPermissions
    \/ NoStorageRemovePermissions
    \/ NoStorageGetRole
    \/ NoStorageDeleteRole
    \/ NoStorageCheckRolePermission
    \/ NoStorageCheckRolesPermission

SpecNoStorage == InitNoStorage /\ [][NextNoStorage]_vars

----------------------------------------------------------------------------
(* Properties of the matcher *)

Range(s) == {s[i] : i \in DOMAIN s}

Reverse(s) == [i \in 1..Len(s) |-> s[Len(s) + 1 - i]]

\* long = short . "." . rest for some rest
ExtendsByDot(long, short) ==
    \E n \in 0..Len(long) :
        long = short \o Dot \o SubSeq(long, Len(long) - n + 1, Len(long))

\* the segment sequence x is a prefix of (or equal to) the segment sequence y
IsSegmentPrefix(x, y) ==
    /\ Len(x) <= Len(y)
    /\ \A i \in 1..Len(x) : x[i] = y[i]

\* C1: CheckPermission(required, given) is true exactly when the two strings
\* are equal, or required is given + "." + something, or given is
\* required + "." + something; so CheckPermission(p, p) is always true.
C1_ExactOrDotPrefix ==
    last.op = "CheckPermission" =>
        /\ last.ret = (\/ required = given
                       \/ ExtendsByDot(required, given)
                       \/ ExtendsByDot(given, required))
        /\ (required = given => last.ret = TRUE)

C1_Witness ==
    /\ last.op = "CheckPermission"
    /\ required = sUserCreate
    /\ given = sUserCreate
    /\ last.ret = TRUE

\* C2: CheckPermission is true exactly when the dot-separated segments of one
\* string are a prefix of (or equal to) the segments of the other; "user" and
\* "username" do not satisfy each other, nor do the siblings "user.delete"
\* and "user.update".
C2_SegmentBoundary ==
    last.op = "CheckPermission" =>
        /\ last.ret = (\/ IsSegmentPrefix(Split(required), Split(given))
                       \/ IsSegmentPrefix(Split(given), Split(required)))
        /\ ({required, given} = {sUser, sUsername} => last.ret = FALSE)
        /\ ({required, given} = {sUserDelete, sUserUpdate} => last.ret = FALSE)

C2_Witness ==
    /\ last.op = "CheckPermission"
    /\ required = sUser
    /\ given = sUsername
    /\ last.ret = FALSE

\* C3: CheckPermission(a, b) = CheckPermission(b, a) for all strings a, b.
C3_Symmetric ==
    last.op = "CheckPermission" => last.ret = last.rev

C3_Witness ==
    /\ last.op = "CheckPermission"
    /\ required = sInfra
    /\ given = sInfraVmStop
    /\ last.ret = TRUE
    /\ last.rev = TRUE

C5_AnyElement ==
    last.op = "CheckPermissions" =>
        /\ last.ret = (\E g \in Range(givenPermissions) : CheckPermission(required, g))
        /\ (givenPermissions = <<>> => last.ret = FALSE)
        /\ last.ret = CheckPermissions(required, Reverse(givenPermissions))
        /\ last.ret = CheckPermissions(required, givenPermissions \o givenPermissions)

C5_Witness ==
    /\ last.op = "CheckPermissions"
    /\ Len(givenPermissions) = 2
    /\ ~CheckPermission(required, givenPermissions[1])
    /\ CheckPermission(required, givenPermissions[2])
    /\ last.ret = TRUE

----------------------------------------------------------------------------
(* Properties of the role checks *)

RoleStored(key) == \E r \in storage.roles : r.Key = key

StoredRole(key) == CHOOSE r \in storage.roles : r.Key = key

\* some permission of the list satisfies the requirement
Satisfies(perms, req) == \E g \in Range(perms) : CheckPermission(req, g)

\* C6: CheckRolePermission(roleKey, required) fails with RoleNotFound when no
\* role with that key is stored; otherwise it returns without error what
\* CheckPermissions gives on the role's stored permission list, so a role
\* holding only "article.read" satisfies "article.read" and "article" but
\* not "article.delete".
C6_RoleCheckDelegates ==
    last.op = "CheckRolePermission" =>
        IF ~RoleStored(last.key)
        THEN last.err = ErrRoleNotFound /\ last.ret = FALSE
        ELSE LET P == StoredRole(last.key).Permissions
             IN /\ last.err = NoErr
                /\ last.ret = Satisfies(P, last.required)
                /\ (P = <<sArticleRead>> =>
                       last.ret = (last.required \in {sArticleRead, sArticle}))

C6_Witness ==
    /\ last.op = "CheckRolePermission"
    /\ RoleStored(last.key)
    /\ StoredRole(last.key).Permissions = <<sArticleRead>>
    /\ last.required = sArticleDelete
    /\ last.err = NoErr
    /\ last.ret = FALSE

\* C7: with a storage that fails only with role-not-found,
\* CheckRolesPermission never returns an error and returns true exactly when
\* some key of the list names a stored role whose permissions satisfy the
\* requirement; keys of missing roles are skipped and the order of the keys
\* does not matter.
C7_RolesCheckSkipsMissing ==
    last.op = "CheckRolesPermission" =>
        /\ last.err = NoErr
        /\ last.ret = (\E k \in Range(last.keys) :
                          /\ RoleStored(k)
                          /\ Satisfies(StoredRole(k).Permissions, last.required))
        /\ last.ret = CheckRolesPermission(storage, Reverse(last.keys),
                                           last.required, NoFault).ret

C7_Witness ==
    /\ last.op = "CheckRolesPermission"
    /\ last.keys = <<"ghost", "viewer">>
    /\ ~RoleStored("ghost")
    /\ RoleStored("viewer")
    /\ StoredRole("viewer").Permissions = <<sArticleRead>>
    /\ last.required = sArticleRead
    /\ last.err = NoErr
    /\ last.ret = TRUE

----------------------------------------------------------------------------
(* Properties of path resolution and of CreateResource *)

\* the chains r1..rn of stored resources along the keys ks: r1 a root, each
\* next one a child of the one before, the i-th with key ks[i]
Chains(st, ks) ==
    {c \in [1..Len(ks) -> st.resources] :
        /\ c[1].ParentID = 0
        /\ \A i \in 1..Len(ks) : c[i].Key = ks[i]
        /\ \A i \in 2..Len(ks) : c[i].ParentID = c[i - 1].ID}

RootStored(st, key) == \E r \in st.resources : r.Key = key /\ r.ParentID = 0

\* C8: GetResource("k1.k2...kn") returns r exactly when storage holds a
\* chain r1..rn with r1 a root of key k1, each next resource a child of the
\* one before with the next key, and r = rn; when there is no such chain the
\* call fails with ResourceNotFound and returns nothing, and a resource with
\* the right key under another parent is never returned.
C8_ParentScopedResolution ==
    last.op = "GetResource" =>
        LET ks == Split(last.path)
            chains == Chains(storage, ks)
        IN IF chains = {}
           THEN last.err = ErrResourceNotFound /\ last.ret = Nil
           ELSE /\ last.err = NoErr
                /\ \A c \in chains : last.ret = Hydrate(storage, c[Len(ks)])

C8_Witness ==
    /\ last.op = "GetResource"
    /\ last.path = sArticle \o Dot \o sComment
    /\ RootStored(storage, sComment)
    /\ last.err = NoErr
    /\ last.ret.Key = sComment
    /\ last.ret.ParentID # 0

\* C9: resolving the empty path fails with InvalidPath in GetResource,
\* AddActions, CreateResources and DeleteResource, without a storage lookup.
C9_EmptyPathInvalid ==
    (/\ last.op \in {"GetResource", "AddActions", "CreateResources", "DeleteResource"}
     /\ last.path = <<>>)
        => last.err = ErrInvalidResourcePath /\ last.calls = 0

\* C10: CreateResource fails with ResourceExists exactly when a root resource
\* with the key of the configuration is stored already, and then leaves
\* storage unchanged; the key stored only on a child does not keep the root
\* from being created.
C10_ExistsIffRootStored ==
    [][(last = NoCall /\ last'.op = "CreateResource") =>
        LET key == last'.config.Key
        IN /\ (last'.err = ErrResourceExists) = RootStored(storage, key)
           /\ (last'.err = ErrResourceExists => storage' = storage)
           /\ (~RootStored(storage, key) => RootStored(storage', key))]_vars

C10_Witness ==
    /\ last.op = "CreateResource"
    /\ last.err = NoErr
    /\ last.ret.ParentID = 0
    /\ \E r \in storage.resources :
          /\ r.Key = last.config.Key
          /\ r.ParentID # 0
          /\ r.ID < last.ret.ID

----------------------------------------------------------------------------
(* Properties of CreateResources and DeleteResource *)

ChildrenWithKey(st, parentID, key) ==
    {r \in st.resources : r.ParentID = parentID /\ r.Key = key}

\* the (key, name) pairs of the actions stored on a resource
ActionsOf(st, resourceID) ==
    {[Key |-> a.Key, Name |-> a.Name] : a \in {b \in st.actions : b.ResourceID = resourceID}}

\* C11: CreateResources on an existing parent with one candidate whose key is
\* already stored under that parent does not fail and adds no sibling: the
\* resource rows stay as they are (id, name, description of the existing
\* child included), exactly one child has the key, and the child's actions
\* afterwards are its actions before together with the candidate's.
C11_UpsertByKey ==
    [][(/\ last = NoCall
        /\ last'.op = "CreateResources"
        /\ Len(last'.subResources) = 1
        /\ getResourceByPath(storage, last'.path, NoFault).err = NoErr
        /\ ChildrenWithKey(storage, getResourceByPath(storage, last'.path, NoFault).ret.ID,
                           last'.subResources[1].Key) # {})
       => LET parentID == getResourceByPath(storage, last'.path, NoFault).ret.ID
              candidate == last'.subResources[1]
              child == CHOOSE c \in ChildrenWithKey(storage, parentID, candidate.Key) : TRUE
          IN /\ last'.err = NoErr
             /\ storage'.resources = storage.resources
             /\ Cardinality(ChildrenWithKey(storage', parentID, candidate.Key)) = 1
             /\ ActionsOf(storage', child.ID) =
                    ActionsOf(storage, child.ID) \cup
                    {[Key |-> a.Key, Name |-> a.Name] : a \in Range(candidate.Actions)}]_vars

\* C12: a DeleteResource(path) that succeeds removes the resolved resource,
\* its descendants at every depth and the actions of all of them; looking any
\* of them up by id, or the path again, fails with ResourceNotFound; rows
\* outside the subtree are unchanged.
C12_DeleteCascades ==
    [][(last = NoCall /\ last'.op = "DeleteResource" /\ last'.err = NoErr)
       => LET resolved == getResourceByPath(storage, last'.path, NoFault).ret
              gone == Subtree(storage, {resolved.ID})
          IN /\ storage'.resources = {r \in storage.resources : r.ID \notin gone}
             /\ storage'.actions = {a \in storage.actions : a.ResourceID \notin gone}
             /\ \A id \in gone :
                    StorageGetResourceByID(storage', id, FALSE).err = ErrResourceNotFound
             /\ GetResource(storage', last'.path, NoFault).err = ErrResourceNotFound]_vars

----------------------------------------------------------------------------
(* Invariants of the stored data and the handling of storage failures *)

\* C13: no two stored resources share both parent and key, roots (parent
\* NULL) included.
C13_ParentKeyUnique ==
    \A r1, r2 \in storage.resources :
        (r1.ParentID = r2.ParentID /\ r1.Key = r2.Key) => r1 = r2

----------------------------------------------------------------------------
(* Properties of the role operations *)

\* how often p occurs in the list s
Count(s, p) == Cardinality({i \in DOMAIN s : s[i] = p})

RoleIn(st, key) == CHOOSE r \in st.roles : r.Key = key

\* the elements of P not in before, each at its first occurrence, in the
\* order of P
NewInOrder(P, before) ==
    LET keep == [i \in DOMAIN P |->
                    /\ P[i] \notin Range(before)
                    /\ \A j \in 1..(i - 1) : P[j] # P[i]]
        RECURSIVE From(_)
        From(i) == IF i > Len(P) THEN <<>>
                   ELSE IF keep[i] THEN <<P[i]>> \o From(i + 1)
                   ELSE From(i + 1)
    IN From(1)

\* C14 as stated: in every reachable state each stored role's permission
\* list contains every permission string at most once.
C14_ListsDeduplicated ==
    \A r \in storage.roles : \A p \in Range(r.Permissions) : Count(r.Permissions, p) = 1

\* C14 as amended: only CreateRole brings a repeated permission into
\* storage, storing the list it is given as it is; AssignPermissions,
\* RemovePermissions and DeleteRole never raise the number of occurrences of
\* a permission string above one, so a role created from a list without
\* repeats has none in any later state.
C14_NoNewDuplicates ==
    [][\A r2 \in storage'.roles : \A p \in Range(r2.Permissions) :
          Count(r2.Permissions, p) > 1 =>
              \/ \E r1 \in storage.roles :
                    r1.ID = r2.ID /\ Count(r1.Permissions, p) >= Count(r2.Permissions, p)
              \/ /\ last'.op = "CreateRole"
                 /\ last'.err = NoErr
                 /\ last'.ret = r2
                 /\ r2.Permissions = last'.config.Permissions]_vars

C14_Witness ==
    /\ last.op = "AssignPermissions"
    /\ last.err = NoErr
    /\ last.permissions = <<sArticleRead, sArticleRead>>
    /\ RoleIn(storage, last.key).Permissions = <<sArticle, sArticleRead>>

\* the step is a call of op on a stored role that returned no error
RoleStep(op) ==
    /\ last = NoCall
    /\ last'.op = op
    /\ last'.err = NoErr

\* C15 as stated: after a successful AssignPermissions(roleKey, P) the
\* role's list holds every string of P exactly once.
C15_AssignedExactlyOnce ==
    [][RoleStep("AssignPermissions") =>
          \A p \in Range(last'.permissions) :
              Count(RoleIn(storage', last'.key).Permissions, p) = 1]_vars

\* C15 as amended: after a successful AssignPermissions(roleKey, P) the
\* role's list holds every string of P at least once, and exactly once when
\* the list held it at most once before the call, however often P repeats
\* it; a string the list held several times before is still held that often.
C15_AssignedOnceUnlessStoredTwice ==
    [][RoleStep("AssignPermissions") =>
          \A p \in Range(last'.permissions) :
              LET before == Count(RoleIn(storage, last'.key).Permissions, p)
                  after == Count(RoleIn(storage', last'.key).Permissions, p)
              IN after = Max(1, before)]_vars

C15_Witness ==
    /\ last.op = "AssignPermissions"
    /\ last.err = NoErr
    /\ last.permissions = <<sArticle, sArticle, sArticleRead>>
    /\ RoleIn(storage, last.key).Permissions = <<sArticle, sArticleRead>>

\* C16: a successful AssignPermissions(roleKey, P) leaves the previous list
\* in place and in order, followed by the strings of P that were not in it,
\* each once, in the order of their first occurrence in P; nothing is
\* removed, and the same call made again changes nothing.
C16_AppendOnly ==
    [][RoleStep("AssignPermissions") =>
          LET before == RoleIn(storage, last'.key).Permissions
              after == RoleIn(storage', last'.key).Permissions
              again == AssignPermissions(storage', last'.key, last'.permissions, NoFault)
          IN /\ after = before \o NewInOrder(last'.permissions, before)
             /\ SubSeq(after, 1, Len(before)) = before
             /\ again.err = NoErr
             /\ again.st = storage']_vars

C16_Witness ==
    /\ last.op = "AssignPermissions"
    /\ last.err = NoErr
    /\ last.permissions = <<sArticleRead, sArticle>>
    /\ RoleIn(storage, last.key).Permissions = <<sArticle, sArticleRead>>

\* C17: a successful RemovePermissions(roleKey, P) leaves the previous list
\* without the elements equal to a string of P, the others in their order;
\* when no element equals a string of P the call returns no error and the
\* role is unchanged; removing "article" does not remove "article.read".
C17_RemoveByExactValue ==
    [][(/\ last = NoCall
        /\ last'.op = "RemovePermissions"
        /\ \E r \in storage.roles : r.Key = last'.key) =>
          LET before == RoleIn(storage, last'.key)
              after == RoleIn(storage', last'.key)
              P == Range(last'.permissions)
          IN /\ last'.err = NoErr
             /\ after.Permissions = SelectSeq(before.Permissions, LAMBDA x : x \notin P)
             /\ (P \cap Range(before.Permissions) = {} => storage' = storage)
             /\ (P = {sArticle} =>
                    Count(after.Permissions, sArticleRead) =
                    Count(before.Permissions, sArticleRead))]_vars

C17_Witness ==
    /\ last.op = "RemovePermissions"
    /\ last.err = NoErr
    /\ last.permissions = <<sArticle>>
    /\ RoleIn(storage, last.key).Permissions = <<sArticleRead>>

\* C18: CreateRole(key, config) fails with RoleExists when a role with the
\* key is stored, and storage is then unchanged; otherwise it stores one new
\* role and returns it, with the key, name, description and permission list
\* of the call as given, repeated permissions included.
C18_CreateRoleVerbatim ==
    [][(last = NoCall /\ last'.op = "CreateRole") =>
          IF \E r \in storage.roles : r.Key = last'.key
          THEN /\ last'.err = ErrRoleExists
               /\ last'.ret = Nil
               /\ storage' = storage
          ELSE /\ last'.err = NoErr
               /\ last'.ret.Key = last'.key
               /\ last'.ret.Name = last'.config.Name
               /\ last'.ret.Description = last'.config.Description
               /\ last'.ret.Permissions = last'.config.Permissions
               /\ last'.ret.ID \notin {r.ID : r \in storage.roles}
               /\ storage'.roles = storage.roles \cup {last'.ret}]_vars

C18_Witness ==
    /\ last.op = "CreateRole"
    /\ last.err = NoErr
    /\ last.config.Permissions = <<sArticleRead, sArticleRead>>
    /\ last.ret \in storage.roles
    /\ last.ret.Permissions = <<sArticleRead, sArticleRead>>

----------------------------------------------------------------------------
(* Properties of the Manager on a database that fails *)

\* C19: when a storage call made by a Manager operation fails with a
\* database error, the operation returns that error and makes no further
\* storage call; the existence lookups of CreateResource and CreateResources
\* are such calls.
C19_FailureReturned ==
    (last # NoCall /\ last.fault > 0 /\ last.fault <= last.calls) =>
        /\ last.err = ErrDB
        /\ last.calls = last.fault

\* C20: a CreateResource that fails returns no resource; when a step after
\* the insert of the root row fails, nothing stored before is lost and the
\* rows of the steps made before the failing one stay: the root row, its
\* actions, the sub-resource, in that order; the same call made again fails
\* with ResourceExists.
C20_NoRollback ==
    [][(last = NoCall /\ last'.op = "CreateResource" /\ last'.err # NoErr) =>
          /\ last'.ret = Nil
          /\ last'.calls >= 3 =>
                LET config == last'.config
                    rootID == storage.nextResourceID
                    done == last'.calls - 1
                    n == IF Len(config.Actions) > 0 THEN 3 ELSE 2
                    subs == {r \in storage'.resources : r.ParentID = rootID}
                IN /\ storage.resources \subseteq storage'.resources
                   /\ storage.actions \subseteq storage'.actions
                   /\ \E r \in storage'.resources \ storage.resources :
                          r.ID = rootID /\ r.Key = config.Key /\ r.ParentID = 0
                   /\ (n = 3 /\ done >= 3) =>
                          ActionsOf(storage', rootID) =
                              {[Key |-> a.Key, Name |-> a.Name] : a \in Range(config.Actions)}
                   /\ (Len(config.SubResources) > 0 /\ done >= n + 1) =>
                          {r.Key : r \in subs} = {config.SubResources[1].Key}
                   /\ CreateResource(storage', config, NoFault).err = ErrResourceExists]_vars

C20_Witness ==
    /\ last.op = "CreateResource"
    /\ last.err = ErrDB
    /\ last.ret = Nil
    /\ last.calls = 5
    /\ Len(last.config.Actions) > 0
    /\ \E r \in storage.resources :
          /\ r.Key = last.config.Key
          /\ r.ParentID = 0
          /\ ActionsOf(storage, r.ID) # {}
          /\ ChildrenWithKey(storage, r.ID, sComment) # {}

----------------------------------------------------------------------------
(* Properties of the role operations called concurrently *)

\* caller c ends a call of op with success in this step
Finishes(c, op) ==
    /\ pending[c].phase = "loaded"
    /\ pending[c].op = op
    /\ pending'[c].phase = "returned"
    /\ pending'[c].err = NoErr

\* C21: the write-back of AssignPermissions stores the list the call loaded
\* followed by its own new permissions, whatever is stored by then (last
\* write wins), so of two calls that loaded the same list and both returned
\* success the permission of the first writer is lost.
C21_LastWriteWins ==
    [][\A c \in Callers : Finishes(c, "AssignPermissions") =>
          LET loaded == pending[c].role.Permissions
              P == pending[c].permissions
              after == RoleIn(storage', ConcurrentRoleKey).Permissions
          IN after = loaded \o NewInOrder(P, loaded)]_vars

\* both calls loaded the same role and returned success, and the permission
\* c1 granted is not stored
C21_Witness ==
    /\ pending["c1"].phase = "returned" /\ pending["c2"].phase = "returned"
    /\ pending["c1"].op = "AssignPermissions" /\ pending["c2"].op = "AssignPermissions"
    /\ pending["c1"].err = NoErr /\ pending["c2"].err = NoErr
    /\ pending["c1"].role = pending["c2"].role
    /\ pending["c1"].permissions = <<sArticle>>
    /\ pending["c2"].permissions = <<sArticleRead>>
    /\ \E r \in storage.roles :
          /\ r.ID = pending["c1"].role.ID
          /\ sArticleRead \in Range(r.Permissions)
          /\ sArticle \notin Range(r.Permissions)

----------------------------------------------------------------------------
(* Properties of a Manager without storage *)

\* C22: on a Manager constructed without a storage implementation every
\* operation returns an error to its caller: none panics on the missing
\* storage and none succeeds.
C22_FailsFast ==
    last # NoCall =>
        IF last.out.panicked THEN FALSE ELSE last.out.err # NoErr

----------------------------------------------------------------------------
(* Properties of the resource tree CreateResource builds *)

KeysOf(list) == {list[i].Key : i \in DOMAIN list}

\* C23: a CreateResource that succeeds returns the resource as stored, with
\* its relations: the keys of the returned actions are the keys of
\* config.Actions, one action per configured one, the keys of the returned
\* sub-resources are the keys of config.SubResources, one per configured
\* one, and GetResource(config.Key) on the resulting storage returns the same
\* resource.
C23_ReturnsHydrated ==
    [][(last = NoCall /\ last'.op = "CreateResource" /\ last'.err = NoErr) =>
          LET config == last'.config
              ret == last'.ret
              again == GetResource(storage', config.Key, NoFault)
          IN /\ ret.Key = config.Key
             /\ ret.ID \notin {r.ID : r \in storage.resources}
             /\ {a.Key : a \in ret.Actions} = KeysOf(config.Actions)
             /\ Cardinality(ret.Actions) = Len(config.Actions)
             /\ {c.Key : c \in ret.SubResources} = KeysOf(config.SubResources)
             /\ Cardinality(ret.SubResources) = Len(config.SubResources)
             /\ ret = Hydrate(storage', CHOOSE r \in storage'.resources : r.ID = ret.ID)
             /\ again.err = NoErr
             /\ again.ret = ret]_vars

C23_Witness ==
    /\ last.op = "CreateResource"
    /\ last.err = NoErr
    /\ Len(last.config.Actions) = 3
    /\ Cardinality(last.ret.Actions) = 3
    /\ Len(last.config.SubResources) = 1
    /\ Cardinality(last.ret.SubResources) = 1

\* the configured tree under parentID, node by node: every listed resource
\* is stored under parentID with its own actions, and so is what is listed
\* inside it
RECURSIVE TreeStored(_, _, _)
TreeStored(st, parentID, list) ==
    \A i \in DOMAIN list :
        \E r \in st.resources :
            /\ r.ParentID = parentID
            /\ r.Key = list[i].Key
            /\ KeysOf(list[i].Actions) \subseteq {a.Key : a \in ActionsOf(st, r.ID)}
            /\ TreeStored(st, r.ID, list[i].SubResources)

\* C24: after a CreateResource that succeeds every node of the configured
\* tree is stored: the listed sub-resources under the new resource with
\* their actions, and the sub-resources listed inside a sub-resource under
\* that sub-resource.
C24_TreeCreated ==
    [][(last = NoCall /\ last'.op = "CreateResource" /\ last'.err = NoErr) =>
          TreeStored(storage', last'.ret.ID, last'.config.SubResources)]_vars

----------------------------------------------------------------------------
(* Properties of AddActions *)

ActionRows(st, resourceID) == {a \in st.actions : a.ResourceID = resourceID}

\* the given keys are n distinct keys none of which is stored on the resource
NewDistinctKeys(st, resourceID, actions) ==
    /\ \A i, j \in DOMAIN actions : actions[i].Key = actions[j].Key => i = j
    /\ \A i \in DOMAIN actions :
           actions[i].Key \notin {a.Key : a \in ActionRows(st, resourceID)}

\* C26: AddActions(path, actions) on a path that resolves to a resource:
\* with n action keys that are distinct and new to the resource, the
\* resource afterwards holds its earlier actions and the n given ones, n
\* more rows than before, and a call with n >= 1 of them succeeds; when a
\* given key is already stored on the resource the call returns the storage's
\* unique-constraint error and stores nothing; the actions of every other
\* resource stay as they are; and in every state reached no resource holds
\* two actions of one key.
C26_AddActionsAttaches ==
    [][(last = NoCall /\ last'.op = "AddActions"
        /\ GetResource(storage, last'.path, NoFault).err = NoErr) =>
          LET target == GetResource(storage, last'.path, NoFault).ret.ID
              actions == last'.actions
              n == Len(actions)
              before == ActionRows(storage, target)
              after == ActionRows(storage', target)
          IN /\ NewDistinctKeys(storage, target, actions) =>
                   /\ Cardinality(after) = Cardinality(before) + n
                   /\ before \subseteq after
                   /\ {[Key |-> a.Key, Name |-> a.Name] : a \in after \ before}
                        = {actions[i] : i \in DOMAIN actions}
                   /\ n >= 1 => last'.err = NoErr
             /\ (\E i \in DOMAIN actions : actions[i].Key \in {a.Key : a \in before}) =>
                   /\ last'.err = ErrUniqueConstraint
                   /\ storage' = storage
             /\ \A r \in storage.resources :
                   r.ID # target => ActionRows(storage', r.ID) = ActionRows(storage, r.ID)
             /\ storage'.resources = storage.resources
             /\ \A a, b \in storage'.actions :
                   (a.ResourceID = b.ResourceID /\ a.Key = b.Key) => a = b]_vars

\* AddActions("article", [create, update]) has succeeded on an article that
\* held read, and AddActions of a key already held came back with the error
C26_Witness ==
    /\ last.op = "AddActions"
    /\ last.path = sArticle
    /\ last.actions = <<aCreate, aUpdate>>
    /\ last.err = NoErr
    /\ \E r \in storage.resources :
           /\ r.Key = sArticle /\ r.ParentID = 0
           /\ {a.Key : a \in ActionRows(storage, r.ID)} = {"read", "create", "update"}
           /\ \E c \in storage.resources :
                  c.ParentID = r.ID /\ ActionRows(storage, c.ID) # {}

----------------------------------------------------------------------------
(* Properties of CheckRolesPermission on a failing storage *)

\* the role named by the j-th key is stored and satisfies the requirement
Grants(st, keys, j, req) ==
    \E r \in st.roles : r.Key = keys[j] /\ Satisfies(r.Permissions, req)

\* C25: CheckRolesPermission(roleKeys, required) with the load of the k-th
\* role failing with a database error: when no role before k in roleKeys
\* satisfies the requirement the call returns false and that error, whatever
\* the roles after k hold; when a role before k satisfies it the call
\* returns true and no error, as it does when nothing fails: the k-th load
\* is not made.
C25_ErrorAborts ==
    [][(last = NoCall /\ last'.op = "CheckRolesPermission"
        /\ last'.fault \in 1..Len(last'.keys)) =>
          LET keys == last'.keys
              k == last'.fault
              req == last'.required
          IN IF \E j \in 1..(k - 1) : Grants(storage, keys, j, req)
             THEN /\ last'.ret = TRUE
                  /\ last'.err = NoErr
                  /\ CheckRolesPermission(storage, keys, req, NoFault)
                        = [ret |-> TRUE, err |-> NoErr]
             ELSE /\ last'.ret = FALSE
                  /\ last'.err = ErrDB]_vars

\* the load of the first of two roles failed and the second one grants
C25_Witness ==
    /\ last.op = "CheckRolesPermission"
    /\ last.fault = 1
    /\ Len(last.keys) = 2
    /\ last.keys[1] # last.keys[2]
    /\ RoleStored(last.keys[1])
    /\ Grants(storage, last.keys, 2, last.required)
    /\ last.ret = FALSE
    /\ last.err = ErrDB

----------------------------------------------------------------------------
(* Properties of DeleteRole against a concurrent write-back *)

\* caller c writes back, in this step, a role that caller d's DeleteRole has
\* deleted since c loaded it, no role of the key being stored by now
WritesBackDeleted(c, d) ==
    /\ pending[c].phase = "loaded"
    /\ pending[c].op \in {"AssignPermissions", "RemovePermissions"}
    /\ pending'[c].phase = "returned"
    /\ pending[d].phase = "returned"
    /\ pending[d].op = "DeleteRole"
    /\ pending[d].err = NoErr
    /\ pending[d].role.ID = pending[c].role.ID
    /\ ~\E r \in storage.roles : r.Key = ConcurrentRoleKey

\* C30: when AssignPermissions or RemovePermissions loaded the role before a
\* DeleteRole of it that has returned success, and writes the role back
\* after the deletion, no role of that key is stored once the write-back
\* has finished.
C30_DeletedStaysDeleted ==
    [][\A c, d \in Callers :
          WritesBackDeleted(c, d) =>
              ~\E r \in storage'.roles : r.Key = ConcurrentRoleKey]_vars

----------------------------------------------------------------------------
(* Properties of roles and resources side by side *)

WithoutKey(keys, key) == SelectSeq(keys, LAMBDA k : k # key)

\* C27: DeleteRole(key) with no role of that key stored fails with
\* RoleNotFound and changes nothing; a DeleteRole that succeeds removes the
\* one role of that key and leaves every other role, every resource and
\* every action as it was, and on the resulting storage GetRole(key) and
\* CheckRolePermission(key, p) fail with RoleNotFound, CheckRolesPermission
\* gives what it gives on the list without that key, and CreateRole(key, ...)
\* succeeds.
C27_DeleteRoleRemovesOne ==
    [][(last = NoCall /\ last'.op = "DeleteRole") =>
          LET key == last'.key
              rows == {r \in storage.roles : r.Key = key}
          IN IF rows = {}
             THEN last'.err = ErrRoleNotFound /\ storage' = storage
             ELSE /\ last'.err = NoErr
                  /\ Cardinality(rows) = 1
                  /\ storage' = [storage EXCEPT !.roles = @ \ rows]
                  /\ GetRole(storage', key, NoFault).err = ErrRoleNotFound
                  /\ \A p \in RequiredStrings :
                        /\ CheckRolePermission(storage', key, p, FALSE)
                              = [ret |-> FALSE, err |-> ErrRoleNotFound]
                        /\ \A keys \in RoleKeyLists :
                              CheckRolesPermission(storage', keys, p, NoFault)
                                 = CheckRolesPermission(storage', WithoutKey(keys, key),
                                                        p, NoFault)
                  /\ \A config \in GrantRoleConfigs :
                        LET again == CreateRole(storage', key, config, NoFault)
                        IN /\ again.err = NoErr
                           /\ \E r \in again.st.roles :
                                 r.Key = key /\ r.Permissions = config.Permissions]_vars

\* a role has been deleted while another role, a resource and an action
\* are stored
C27_Witness ==
    /\ last.op = "DeleteRole"
    /\ last.err = NoErr
    /\ ~RoleStored(last.key)
    /\ \E r \in storage.roles : r.Permissions = <<sArticleRead>>
    /\ storage.resources # {}
    /\ storage.actions # {}

ResourceOps == {"CreateResource", "CreateResources", "AddActions", "DeleteResource"}

WithoutResources(st) == [st EXCEPT !.resources = {}, !.actions = {}]

\* C28: the outcome of CreateRole and AssignPermissions is the one they have
\* on a storage holding no resource and no action, so a string is accepted
\* whether or not a resource or action matches it; CreateResource,
\* CreateResources, AddActions and DeleteResource leave the role rows as
\* they are; and after a DeleteResource that succeeded every role holding
\* "article.read" still gets true from CheckRolePermission(role,
\* "article.read").
C28_GrantsArePlainStrings ==
    [][last = NoCall =>
          /\ last'.op = "CreateRole" =>
                LET bare == CreateRole(WithoutResources(storage), last'.key,
                                       last'.config, NoFault)
                IN /\ last'.err = bare.err
                   /\ storage'.roles = bare.st.roles
                   /\ ~(\E r \in storage.roles : r.Key = last'.key) => last'.err = NoErr
          /\ last'.op = "AssignPermissions" =>
                LET bare == AssignPermissions(WithoutResources(storage), last'.key,
                                              last'.permissions, NoFault)
                IN /\ last'.err = bare.err
                   /\ storage'.roles = bare.st.roles
                   /\ (\E r \in storage.roles : r.Key = last'.key) => last'.err = NoErr
          /\ last'.op \in ResourceOps => storage'.roles = storage.roles
          /\ (last'.op = "DeleteResource" /\ last'.err = NoErr) =>
                \A r \in storage.roles :
                    sArticleRead \in Range(r.Permissions) =>
                        CheckRolePermission(storage', r.Key, sArticleRead, FALSE)
                           = [ret |-> TRUE, err |-> NoErr]]_vars

\* the check of "article.read" returns true for a role that was granted it
\* while no article was stored, after article was created and deleted
C28_Witness ==
    /\ last.op = "CheckRolePermission"
    /\ last.required = sArticleRead
    /\ last.ret = TRUE
    /\ storage.nextResourceID > 1
    /\ ~RootStored(storage, sArticle)
    /\ \E r \in storage.roles : r.Key = last.key /\ r.ID = 1

----------------------------------------------------------------------------
(* Properties of grants over a sequence of calls *)

\* what CheckRolePermission(key, req) returns on the storage st
Granted(st, key, req) == CheckRolePermission(st, key, req, FALSE).ret

\* C29: for every role key and every required permission, a successful
\* AssignPermissions never takes the check from true to false, a successful
\* RemovePermissions never takes it from false to true, and a check that is
\* true stays true over every call but a RemovePermissions or a DeleteRole
\* on that role.
C29_GrantMonotone ==
    [][last = NoCall =>
          \A key \in RoleKeys, req \in RequiredStrings :
              /\ (last'.op = "AssignPermissions" /\ last'.err = NoErr) =>
                    (Granted(storage, key, req) => Granted(storage', key, req))
              /\ (last'.op = "RemovePermissions" /\ last'.err = NoErr) =>
                    (Granted(storage', key, req) => Granted(storage, key, req))
              /\ ~(last'.op \in {"RemovePermissions", "DeleteRole"} /\ last'.key = key) =>
                    (Granted(storage, key, req) => Granted(storage', key, req))]_vars

\* AssignPermissions(["article"]) has succeeded on a role that held
\* "article.read" before and holds it still
C29_Witness ==
    /\ last.op = "AssignPermissions"
    /\ last.err = NoErr
    /\ last.permissions = <<sArticle>>
    /\ RoleStored(last.key)
    /\ StoredRole(last.key).Permissions = <<sArticleRead, sArticle>>
    /\ Granted(storage, last.key, sArticleRead)

====
